---- MODULE Spec2Model ----
(***************************************************************************)
(* Model of the changelog parsing, validation and autofix engine of        *)
(* changelog-utils: the single-file assembler loop (parse_changelog), the  *)
(* line parsers it dispatches to (release, change type, entry), the text   *)
(* checkers, the escape recognizer, version comparison and the serializer, *)
(* the add and lint commands that run on the parsed changelog, and the     *)
(* multi-file parse of a changelog directory.                              *)
(* Lines are strings; the regular expressions of the source are written    *)
(* out as scanners over the characters of a line.                          *)
(***************************************************************************)
EXTENDS Integers, Sequences, FiniteSets, TLC

(***************************************************************************)
(* Bounds of the model.                                                    *)
(***************************************************************************)
\* number of lines of an input document
MaxLines == 6
\* number of lines of an input document that is fixed and parsed again
MaxFixLines == 4
\* largest version component drawn for the version comparison inputs
MaxComponent == 2

(***************************************************************************)
(* Characters and strings.                                                 *)
(***************************************************************************)
Ch(s, pos) == IF pos >= 1 /\ pos <= Len(s) THEN SubSeq(s, pos, pos) ELSE ""

From(s, pos) == IF pos > Len(s) THEN "" ELSE SubSeq(s, pos, Len(s))

IsWs(c) == c \in {" ", "\t"}

IsDigit(c) == c \in {"0", "1", "2", "3", "4", "5", "6", "7", "8", "9"}

LowerLetters ==
    {"a", "b", "c", "d", "e", "f", "g", "h", "i", "j", "k", "l", "m",
     "n", "o", "p", "q", "r", "s", "t", "u", "v", "w", "x", "y", "z"}

UpperLetters ==
    {"A", "B", "C", "D", "E", "F", "G", "H", "I", "J", "K", "L", "M",
     "N", "O", "P", "Q", "R", "S", "T", "U", "V", "W", "X", "Y", "Z"}

UpperOf ==
    [c \in LowerLetters |->
        CASE c = "a" -> "A" [] c = "b" -> "B" [] c = "c" -> "C" [] c = "d" -> "D"
          [] c = "e" -> "E" [] c = "f" -> "F" [] c = "g" -> "G" [] c = "h" -> "H"
          [] c = "i" -> "I" [] c = "j" -> "J" [] c = "k" -> "K" [] c = "l" -> "L"
          [] c = "m" -> "M" [] c = "n" -> "N" [] c = "o" -> "O" [] c = "p" -> "P"
          [] c = "q" -> "Q" [] c = "r" -> "R" [] c = "s" -> "S" [] c = "t" -> "T"
          [] c = "u" -> "U" [] c = "v" -> "V" [] c = "w" -> "W" [] c = "x" -> "X"
          [] c = "y" -> "Y" [] c = "z" -> "Z"]

ToUpperChar(c) == IF c \in LowerLetters THEN UpperOf[c] ELSE c

ToLowerChar(c) ==
    IF c \in UpperLetters THEN CHOOSE l \in LowerLetters : UpperOf[l] = c ELSE c

RECURSIVE ToLower(_)
ToLower(s) == IF s = "" THEN "" ELSE ToLowerChar(Head(s)) \o ToLower(Tail(s))

IsAlnumDash(c) == c \in LowerLetters \/ c \in UpperLetters \/ IsDigit(c) \/ c = "-"

DigitVal(c) ==
    CASE c = "0" -> 0 [] c = "1" -> 1 [] c = "2" -> 2 [] c = "3" -> 3 [] c = "4" -> 4
      [] c = "5" -> 5 [] c = "6" -> 6 [] c = "7" -> 7 [] c = "8" -> 8 [] c = "9" -> 9

AllDigits(s) == s # "" /\ \A k \in 1..Len(s) : IsDigit(Ch(s, k))

\* str::parse::<uN>() of a non-empty run of digits (leading zeros allowed)
RECURSIVE ParseNum(_)
ParseNum(s) ==
    IF s = "" THEN 0
    ELSE ParseNum(SubSeq(s, 1, Len(s) - 1)) * 10 + DigitVal(Ch(s, Len(s)))

\* str::starts_with
StartsWith(s, p) == Len(s) >= Len(p) /\ SubSeq(s, 1, Len(p)) = p

\* the literal p occurs in s at index i
At(s, pos, p) == pos >= 1 /\ pos + Len(p) - 1 <= Len(s) /\ SubSeq(s, pos, pos + Len(p) - 1) = p

\* the same, ignoring ASCII case (a case-insensitive regex literal)
AtCI(s, pos, p) ==
    /\ pos >= 1
    /\ pos + Len(p) - 1 <= Len(s)
    /\ ToLower(SubSeq(s, pos, pos + Len(p) - 1)) = ToLower(p)

\* Regex::is_match of a literal
Contains(s, p) == \E k \in 1..Len(s) : At(s, k, p)

\* index after the longest run of whitespace that starts at i (greedy \s*)
SkipWs(s, pos) ==
    CHOOSE j \in pos..(Len(s) + 1) :
        /\ \A k \in pos..(j - 1) : IsWs(Ch(s, k))
        /\ ~IsWs(Ch(s, j))

\* index after the longest run of digits that starts at i (greedy \d*)
SkipDigits(s, pos) ==
    CHOOSE j \in pos..(Len(s) + 1) :
        /\ \A k \in pos..(j - 1) : IsDigit(Ch(s, k))
        /\ ~IsDigit(Ch(s, j))

\* str::trim
Trim(s) ==
    IF \A k \in 1..Len(s) : IsWs(Ch(s, k)) THEN ""
    ELSE LET a == CHOOSE k \in 1..Len(s) :
                      ~IsWs(Ch(s, k)) /\ \A m \in 1..(k - 1) : IsWs(Ch(s, m))
             b == CHOOSE k \in 1..Len(s) :
                      ~IsWs(Ch(s, k)) /\ \A m \in (k + 1)..Len(s) : IsWs(Ch(s, m))
         IN  SubSeq(s, a, b)

\* the text after the last '/' (str::split('/').last())
LastSegment(s) ==
    IF ~Contains(s, "/") THEN s
    ELSE LET k == CHOOSE k \in 1..Len(s) :
                      Ch(s, k) = "/" /\ \A m \in (k + 1)..Len(s) : Ch(s, m) # "/"
         IN  From(s, k + 1)

(***************************************************************************)
(* Configuration consumed by the engine.                                   *)
(***************************************************************************)
target_repo == "h/r"

categories == {"cli"}

change_types == <<[long |-> "Bug Fixes", short |-> "bug"]>>

\* BTreeMap: iterated in key order
expected_spellings == <<[correct |-> "API", pattern |-> "api"]>>

\* Option<String>: <<>> is None, <<v>> is Some(v)
NoLegacy == <<>>

has_legacy_version(lv) == lv # <<>>

(***************************************************************************)
(* Versions.                                                               *)
(***************************************************************************)
\* Option<u8> of the release candidate: -1 is None
NoRc == -1

U8Max == 255

\* version::parse: the Version, or an Err record
VersionParse(s) ==
    LET err == [ok |-> FALSE, major |-> 0, minor |-> 0, patch |-> 0, rc_version |-> NoRc]
        p1 == SkipDigits(s, 2)
        p2 == SkipDigits(s, p1 + 1)
        p3 == SkipDigits(s, p2 + 1)
        \* (-rc(?P<rc>\d+))*$ : the last repetition is the one captured
        RcTail[pos \in 1..(Len(s) + 1)] ==
            IF pos = Len(s) + 1 THEN [ok |-> TRUE, rc |-> ""]
            ELSE IF At(s, pos, "-rc") /\ SkipDigits(s, pos + 3) > pos + 3
                 THEN LET j == SkipDigits(s, pos + 3)
                          r == RcTail[j]
                      IN  IF ~r.ok THEN r
                          ELSE IF j = Len(s) + 1
                               THEN [ok |-> TRUE, rc |-> SubSeq(s, pos + 3, j - 1)]
                               ELSE r
                 ELSE [ok |-> FALSE, rc |-> ""]
    IN  IF ~(Ch(s, 1) = "v" /\ p1 > 2 /\ Ch(s, p1) = "."
             /\ p2 > p1 + 1 /\ Ch(s, p2) = "." /\ p3 > p2 + 1)
        THEN err
        ELSE LET t == RcTail[p3]
                 major == ParseNum(SubSeq(s, 2, p1 - 1))
                 minor == ParseNum(SubSeq(s, p1 + 1, p2 - 1))
                 patch == ParseNum(SubSeq(s, p2 + 1, p3 - 1))
                 rc == IF t.rc = "" THEN NoRc ELSE ParseNum(t.rc)
             IN  IF ~t.ok THEN err
                 \* parse::<u8>() fails above 255
                 ELSE IF major > U8Max \/ minor > U8Max \/ patch > U8Max \/ rc > U8Max
                      THEN err
                      ELSE [ok |-> TRUE, major |-> major, minor |-> minor,
                            patch |-> patch, rc_version |-> rc]

\* a Version::gt that compares the rc numbers as plain numbers, None lowest
GtRcFirst(self, other) ==
    IF self.major > other.major THEN TRUE
    ELSE IF self.major < other.major THEN FALSE
    ELSE IF self.minor > other.minor THEN TRUE
    ELSE IF self.minor < other.minor THEN FALSE
    ELSE IF self.patch > other.patch THEN TRUE
    ELSE IF self.patch < other.patch THEN FALSE
    ELSE self.rc_version > other.rc_version

gt(self, other) ==
    IF self.major > other.major THEN TRUE
    ELSE IF self.major < other.major THEN FALSE
    ELSE IF self.minor > other.minor THEN TRUE
    ELSE IF self.minor < other.minor THEN FALSE
    ELSE IF self.patch > other.patch THEN TRUE
    ELSE IF self.patch < other.patch THEN FALSE
    ELSE IF self.rc_version # NoRc
         THEN IF other.rc_version # NoRc
              THEN self.rc_version > other.rc_version
              ELSE FALSE
         ELSE other.rc_version # NoRc

\* impl fmt::Display for Version
VersionToString(v) ==
    "v" \o ToString(v.major) \o "." \o ToString(v.minor) \o "." \o ToString(v.patch)
        \o (IF v.rc_version # NoRc THEN "-rc" \o ToString(v.rc_version) ELSE "")

(***************************************************************************)
(* Escape directives.                                                      *)
(***************************************************************************)
\* <!--\s*{directive}(:.+)?\s*--> found anywhere in the line
EscapeRegexMatch(raw, directive) ==
    \E k \in 1..Len(raw) :
        /\ At(raw, k, "<!--")
        /\ LET q == SkipWs(raw, k + 4)
               r == q + Len(directive)
           IN  /\ At(raw, q, directive)
               /\ \/ At(raw, SkipWs(raw, r), "-->")
                  \/ /\ Ch(raw, r) = ":"
                     /\ \E m \in (r + 2)..Len(raw) : At(raw, m, "-->")

\* a check_escape_pattern that looks for the shorter directive first and takes
\* it as a prefix of the comment text
check_escape_pattern_prefix(raw) ==
    IF \E k \in 1..Len(raw) :
           At(raw, k, "<!--") /\ At(raw, SkipWs(raw, k + 4), "clu-disable-next-line")
    THEN <<"FullLine">>
    ELSE <<>>

\* check_escape_pattern: Some(escape) as a one-element sequence, None as <<>>
check_escape_pattern(raw) ==
    IF EscapeRegexMatch(raw, "clu-disable-next-line-duplicate-pr") THEN <<"DuplicatePR">>
    ELSE IF EscapeRegexMatch(raw, "clu-disable-next-line") THEN <<"FullLine">>
         ELSE <<>>

(***************************************************************************)
(* Text checkers of an entry.                                              *)
(***************************************************************************)
\* check_category
check_category(category) ==
    LET fixed == ToLower(category)
        p1 == IF ToLower(category) # category
              THEN <<"category should be lowercase: (" \o category \o ")">>
              ELSE <<>>
        p2 == IF fixed \notin categories
              THEN <<"invalid change category: (" \o category \o ")">>
              ELSE <<>>
    IN  [fixed |-> fixed, problems |-> p1 \o p2, panic |-> FALSE]

\* check_link (the entry's PR link); panics when the text after the last '/'
\* is not an unsigned number
check_link(link, pr_number) ==
    LET fixed == target_repo \o "/pull/" \o ToString(pr_number)
        p1 == IF ~StartsWith(link, target_repo)
              THEN <<"PR link points to wrong repository: " \o link>>
              ELSE <<>>
        last == LastSegment(link)
    IN  IF ~AllDigits(last)
        THEN [fixed |-> fixed, problems |-> p1, panic |-> TRUE]
        ELSE LET p2 == IF ParseNum(last) # pr_number
                       THEN <<"PR link is not matching PR number "
                               \o ToString(pr_number) \o ": '" \o link \o "'">>
                       ELSE <<>>
             IN  [fixed |-> fixed, problems |-> p1 \o p2, panic |-> FALSE]

\* the back-tick character (a lone back-tick inside a string literal is not
\* accepted by the parser, so it is cut out of a two-character literal)
Backtick == SubSeq("`'", 1, 1)

\* the pattern occurs between two back-ticks with no back-tick in between
InCodeblock(pattern, text) ==
    \E a \in 1..Len(text) : \E b \in (a + 1)..Len(text) :
        /\ Ch(text, a) = Backtick /\ Ch(text, b) = Backtick
        /\ \A m \in (a + 1)..(b - 1) : Ch(text, m) # Backtick
        /\ \E k \in (a + 1)..(b - Len(pattern)) : AtCI(text, k, pattern)

\* the pattern at k is a word: (^|\s) before and ($|[\s.]) after
IsolatedAt(pattern, text, k) ==
    /\ AtCI(text, k, pattern)
    /\ (k = 1 \/ IsWs(Ch(text, k - 1)))
    /\ LET c == Ch(text, k + Len(pattern)) IN c = "" \/ IsWs(c) \/ c = "."

\* get_spelling_match: Ok(first match) or Err
get_spelling_match(pattern, text) ==
    IF InCodeblock(pattern, text) THEN [ok |-> FALSE, m |-> ""]
    ELSE IF \E k \in 1..Len(text) : IsolatedAt(pattern, text, k)
         THEN LET k == CHOOSE k \in 1..Len(text) :
                           /\ IsolatedAt(pattern, text, k)
                           /\ \A j \in 1..(k - 1) : ~IsolatedAt(pattern, text, j)
              IN  [ok |-> TRUE, m |-> SubSeq(text, k, k + Len(pattern) - 1)]
         ELSE [ok |-> FALSE, m |-> ""]

\* Regex::replace with the case-insensitive pattern: the leftmost match only
ReplaceFirstCI(text, pattern, with) ==
    IF \E k \in 1..Len(text) : AtCI(text, k, pattern)
    THEN LET k == CHOOSE k \in 1..Len(text) :
                      AtCI(text, k, pattern) /\ \A j \in 1..(k - 1) : ~AtCI(text, j, pattern)
         IN  SubSeq(text, 1, k - 1) \o with \o From(text, k + Len(pattern))
    ELSE text

\* check_spelling: the loop over the configured spellings, in key order
RECURSIVE SpellingLoop(_, _, _, _)
SpellingLoop(n, text, fixed, probs) ==
    IF n > Len(expected_spellings) THEN [fixed |-> fixed, problems |-> probs]
    ELSE LET sp == expected_spellings[n]
             r == get_spelling_match(sp.pattern, text)
         IN  IF ~r.ok \/ r.m = sp.correct
             THEN SpellingLoop(n + 1, text, fixed, probs)
             ELSE SpellingLoop(n + 1, text,
                      ReplaceFirstCI(fixed, sp.pattern, sp.correct),
                      Append(probs,
                          "'" \o sp.correct \o "' should be used instead of '" \o r.m \o "'"))

check_spelling(text) == SpellingLoop(1, text, text, <<>>)

\* check_description
check_description(desc) ==
    LET first_letter == Ch(desc, 1)
        cap == first_letter \in LowerLetters
        fixed1 == IF cap THEN ToUpperChar(first_letter) \o From(desc, 2) ELSE desc
        p1 == IF cap
              THEN <<"PR description should start with capital letter: '" \o desc \o "'">>
              ELSE <<>>
        dot == Ch(fixed1, Len(fixed1)) # "."
        fixed2 == IF dot THEN fixed1 \o "." ELSE fixed1
        p2 == IF dot
              THEN <<"PR description should end with a dot: '" \o desc \o "'">>
              ELSE <<>>
        sp == check_spelling(fixed2)
    IN  [fixed |-> sp.fixed, problems |-> p1 \o p2 \o sp.problems, panic |-> FALSE]

\* check_whitespace of the single-file entry parser
expected_whitespace == <<"", " ", " ", "", " ">>

whitespace_errors ==
    << "There should be no leading whitespace before the dash",
       "There should be exactly one space between the leading dash and the category",
       "There should be exactly one space between the category and the PR link",
       "There should be no whitespace inside of the markdown link",
       "There should be exactly one space between the PR link and the description" >>

RECURSIVE WhitespaceLoop(_, _)
WhitespaceLoop(spaces, n) ==
    IF n > 5 THEN <<>>
    ELSE (IF spaces[n] # expected_whitespace[n] THEN <<whitespace_errors[n]>> ELSE <<>>)
         \o WhitespaceLoop(spaces, n + 1)

check_whitespace(spaces) == WhitespaceLoop(spaces, 1)

\* build_fixed
build_fixed(cat, link, desc, pr) ==
    "- (" \o cat \o ") [#" \o ToString(pr) \o "](" \o link \o ") " \o desc

(***************************************************************************)
(* The entry parser of the single-file changelog.                          *)
(***************************************************************************)
\* index of the first character at or after i that fails the class
\* (the end of a greedy character-class run)
SkipWhile(s, pos, InClass(_)) ==
    CHOOSE j \in pos..(Len(s) + 1) :
        /\ \A k \in pos..(j - 1) : InClass(Ch(s, k))
        /\ ~InClass(Ch(s, j))

NotClosingParen(c) == c # "" /\ c # ")"

\* the captures of entry_pattern, or matched = FALSE
EntryCaptures(raw) ==
    LET n == Len(raw)
        d == SkipWs(raw, 1)                       \* the dash
        o1 == SkipWs(raw, d + 1)                  \* '(' of the category
        c1 == SkipWhile(raw, o1 + 1, IsAlnumDash) \* ')' of the category
        o2 == SkipWs(raw, c1 + 1)                 \* '['
        bs == Ch(raw, o2 + 1) = "\\"
        h == IF bs THEN o2 + 2 ELSE o2 + 1         \* '#'
        c2 == SkipDigits(raw, h + 1)              \* ']'
        o3 == SkipWs(raw, c2 + 1)                 \* '(' of the link
        c3 == SkipWhile(raw, o3 + 1, NotClosingParen) \* ')' of the link
        w4 == SkipWs(raw, c3 + 1)
        \* (?P<ws4>\s*)(?P<desc>.+)$ : the description keeps at least one character
        ds == IF w4 > n THEN n ELSE w4
        none == [matched |-> FALSE, category |-> "", bs |-> FALSE, pr |-> "",
                 link |-> "", desc |-> "", spaces |-> <<"", "", "", "", "">>]
    IN  IF /\ Ch(raw, d) = "-"
           /\ Ch(raw, o1) = "("
           /\ c1 > o1 + 1 /\ Ch(raw, c1) = ")"
           /\ Ch(raw, o2) = "["
           /\ Ch(raw, h) = "#"
           /\ c2 > h + 1 /\ Ch(raw, c2) = "]"
           /\ Ch(raw, o3) = "("
           /\ Ch(raw, c3) = ")"
           /\ c3 < n
        THEN [matched |-> TRUE,
              category |-> SubSeq(raw, o1 + 1, c1 - 1),
              bs |-> bs,
              pr |-> SubSeq(raw, h + 1, c2 - 1),
              link |-> SubSeq(raw, o3 + 1, c3 - 1),
              desc |-> SubSeq(raw, ds, n),
              spaces |-> << SubSeq(raw, 1, d - 1), SubSeq(raw, d + 1, o1 - 1),
                            SubSeq(raw, c1 + 1, o2 - 1), SubSeq(raw, c2 + 1, o3 - 1),
                            SubSeq(raw, c3 + 1, ds - 1) >>]
        ELSE none

\* u64::MAX in digits
U64MaxDigits == "18446744073709551615"

RECURSIVE StripZeros(_)
StripZeros(s) == IF Len(s) > 1 /\ Head(s) = "0" THEN StripZeros(Tail(s)) ELSE s

\* a <= b for two runs of digits of the same length
RECURSIVE DigitsLeq(_, _)
DigitsLeq(a, b) ==
    \/ a = ""
    \/ DigitVal(Head(a)) < DigitVal(Head(b))
    \/ Head(a) = Head(b) /\ DigitsLeq(Tail(a), Tail(b))

\* str::parse::<u64>() of a run of digits is Ok
FitsU64(s) ==
    LET t == StripZeros(s)
    IN  Len(t) < Len(U64MaxDigits) \/ (Len(t) = Len(U64MaxDigits) /\ DigitsLeq(t, U64MaxDigits))

\* entry::parse after the checkers have run: the Entry that is returned
EntryChecked(pr_number, ws, cat, lnk, dsc) ==
    [ok |-> TRUE,
     panic |-> lnk.panic,
     err |-> "",
     category |-> cat.fixed,
     fixed |-> build_fixed(cat.fixed, lnk.fixed, dsc.fixed, pr_number),
     pr_number |-> pr_number,
     problems |-> ws \o cat.problems \o lnk.problems \o dsc.problems]

\* an entry::parse whose error names the trimmed line
EntryFromCapturesTrimmed(raw, m) ==
    IF ~m.matched
    THEN [ok |-> FALSE, panic |-> FALSE, err |-> "invalid entry: " \o Trim(raw),
          category |-> "", fixed |-> "", pr_number |-> 0, problems |-> <<>>]
    ELSE IF ~FitsU64(m.pr)
    THEN [ok |-> TRUE, panic |-> TRUE, err |-> "", category |-> "", fixed |-> "",
          pr_number |-> 0, problems |-> <<>>]
    ELSE EntryChecked(ParseNum(m.pr), check_whitespace(m.spaces),
                      check_category(m.category),
                      check_link(m.link, ParseNum(m.pr)),
                      check_description(m.desc))

\* entry::parse after the match: Err(InvalidEntry(line)) without captures m,
\* a panic of parse::<u64>().unwrap() on a PR number above u64::MAX, the
\* checkers on the captures otherwise
EntryFromCaptures(raw, m) ==
    IF ~m.matched
    THEN [ok |-> FALSE, panic |-> FALSE, err |-> "invalid entry: " \o raw,
          category |-> "", fixed |-> "", pr_number |-> 0, problems |-> <<>>]
    ELSE IF ~FitsU64(m.pr)
    THEN [ok |-> TRUE, panic |-> TRUE, err |-> "", category |-> "", fixed |-> "",
          pr_number |-> 0, problems |-> <<>>]
    ELSE EntryChecked(ParseNum(m.pr), check_whitespace(m.spaces),
                      check_category(m.category),
                      check_link(m.link, ParseNum(m.pr)),
                      check_description(m.desc))

\* entry::parse: Ok(Entry), Err(InvalidEntry(line)) or a panic inside a checker
EntryParse(raw) == EntryFromCaptures(raw, EntryCaptures(raw))

(***************************************************************************)
(* The change type parser of the single-file changelog.                    *)
(***************************************************************************)
IsNameChar(c) == IsAlnumDash(c) \/ c = " "

\* the words of a configured name: the text between its runs of whitespace
RECURSIVE Words(_)
Words(s) ==
    LET a == SkipWs(s, 1)
        IsNotWs(c) == c # "" /\ ~IsWs(c)
        b == SkipWhile(s, a, IsNotWs)
    IN  IF a > Len(s) THEN <<>> ELSE <<SubSeq(s, a, b - 1)>> \o Words(From(s, b))

\* the words occur in this order from index i on, separated by \s*
RECURSIVE WordsAt(_, _, _)
WordsAt(s, pos, ws) ==
    IF ws = <<>> THEN TRUE
    ELSE /\ AtCI(s, pos, Head(ws))
         /\ WordsAt(s, SkipWs(s, pos + Len(Head(ws))), Tail(ws))

\* is_match of the pattern derived from a configured change type, where each
\* run of whitespace of the configured name is replaced by \s*
ChangeTypePatternMatch(long, name) ==
    \E k \in 1..Len(name) : WordsAt(name, k, Words(long))

\* the loop body of the any() closure, from the n-th configured change type on
RECURSIVE ChangeTypeAny(_, _)
ChangeTypeAny(name, n) ==
    IF n > Len(change_types)
    THEN [found |-> FALSE, fixed_name |-> name, problems |-> <<>>]
    ELSE LET ct == change_types[n]
         IN  IF ~ChangeTypePatternMatch(ct.long, name)
             THEN ChangeTypeAny(name, n + 1)
             ELSE IF name # ct.long
                  THEN [found |-> TRUE, fixed_name |-> ct.long,
                        problems |-> <<"'" \o ct.long \o "' should be used instead of '"
                                        \o name \o "'">>]
                  ELSE [found |-> TRUE, fixed_name |-> name, problems |-> <<>>]

\* change_type::parse: Ok(ChangeType) or Err(NoMatchesFound)
ChangeTypeParse(raw) ==
    LET n == Len(raw)
        h == SkipWs(raw, 1)
        a == SkipWs(raw, h + 3)
        b == SkipWhile(raw, a, IsNameChar)
        e == SkipWs(raw, b)
        \* nothing but whitespace after the hashes: \s* gives its last space to the name
        blank == a > n /\ \E k \in (h + 3)..n : Ch(raw, k) = " "
    IN  IF ~(At(raw, h, "###") /\ ((b > a /\ e > n) \/ blank))
        THEN [ok |-> FALSE, name |-> "", fixed |-> "", problems |-> <<>>]
        ELSE LET name == IF blank THEN " " ELSE SubSeq(raw, a, b - 1)
                 any == ChangeTypeAny(name, 1)
                 p1 == IF ~any.found
                       THEN <<"'" \o name \o "' is not a valid change type">>
                       ELSE <<>>
                 fixed == "### " \o any.fixed_name
                 p2 == IF "### " \o name # raw
                       THEN <<"Change type line is malformed; should be: '" \o fixed \o "'">>
                       ELSE <<>>
             IN  [ok |-> TRUE, name |-> any.fixed_name, fixed |-> fixed,
                  problems |-> any.problems \o p1 \o p2]

(***************************************************************************)
(* The release parser of the single-file changelog.                        *)
(***************************************************************************)
\* Release::is_unreleased
is_unreleased(release) == release.version = "Unreleased"

\* check_unreleased: \s*##\s*unreleased\s*$ found anywhere, ignoring case
UnreleasedMatch(raw) ==
    \E k \in 1..Len(raw) :
        /\ At(raw, k, "##")
        /\ LET q == SkipWs(raw, k + 2)
           IN  AtCI(raw, q, "unreleased") /\ SkipWs(raw, q + 10) > Len(raw)

\* \d{4}-\d{2}-\d{2}$ at index i
DateAt(s, pos) ==
    /\ pos + 9 = Len(s)
    /\ \A k \in {0, 1, 2, 3, 5, 6, 8, 9} : IsDigit(Ch(s, pos + k))
    /\ Ch(s, pos + 4) = "-" /\ Ch(s, pos + 7) = "-"

\* \s*-\s*(?P<date>...)$ at index i
DateTailAt(s, pos) ==
    LET j == SkipWs(s, pos)
    IN  Ch(s, j) = "-" /\ DateAt(s, SkipWs(s, j + 1))

\* the captures of the dated release header, or matched = FALSE
ReleaseCaptures(raw) ==
    LET n == Len(raw)
        h == SkipWs(raw, 1)
        o == SkipWs(raw, h + 2)                 \* '['
        p1 == SkipDigits(raw, o + 2)
        p2 == SkipDigits(raw, p1 + 1)
        p3 == SkipDigits(raw, p2 + 1)
        rc == AtCI(raw, p3, "-rc") /\ SkipDigits(raw, p3 + 3) > p3 + 3
        c == IF rc THEN SkipDigits(raw, p3 + 3) ELSE p3   \* ']'
        haslink == /\ Ch(raw, c + 1) = "("
                   /\ \E k \in (c + 2)..n : Ch(raw, k) = ")" /\ DateTailAt(raw, k + 1)
        lc == IF haslink
              THEN CHOOSE k \in (c + 2)..n : Ch(raw, k) = ")" /\ DateTailAt(raw, k + 1)
              ELSE c
    IN  IF /\ At(raw, h, "##")
           /\ Ch(raw, o) = "["
           /\ AtCI(raw, o + 1, "v")
           /\ p1 > o + 2 /\ Ch(raw, p1) = "."
           /\ p2 > p1 + 1 /\ Ch(raw, p2) = "."
           /\ p3 > p2 + 1
           /\ Ch(raw, c) = "]"
           /\ DateTailAt(raw, lc + 1)
        THEN [matched |-> TRUE,
              version |-> SubSeq(raw, o + 1, c - 1),
              link |-> IF haslink THEN SubSeq(raw, c + 2, lc - 1) ELSE "",
              date |-> SubSeq(raw, n - 9, n)]
        ELSE [matched |-> FALSE, version |-> "", link |-> "", date |-> ""]

\* check_link of the release parser
release_check_link(link, version) ==
    LET fixed_link == target_repo \o "/releases/tag/" \o version
    IN  IF link = ""
        THEN [fixed |-> fixed_link,
              problems |-> <<"Release link is missing for version " \o version>>]
        ELSE [fixed |-> fixed_link,
              problems |->
                  IF link # fixed_link
                  THEN <<"Release link should point to the GitHub release for " \o version
                          \o "; expected: '" \o fixed_link \o "'; got: '" \o link \o "'">>
                  ELSE <<>>]

\* release::parse after check_link: the Release that is returned
ReleaseChecked(raw, m, lnk) ==
    [ok |-> TRUE, line |-> raw,
     fixed |-> "## [" \o m.version \o "](" \o lnk.fixed \o ") - " \o m.date,
     version |-> m.version,
     change_types |-> <<>>,
     problems |-> lnk.problems]

\* release::parse after the match: Err(NoMatchFound) without captures m
ReleaseFromCaptures(raw, m) ==
    IF ~m.matched
    THEN [ok |-> FALSE, line |-> raw, fixed |-> "", version |-> "",
          change_types |-> <<>>, problems |-> <<>>]
    ELSE ReleaseChecked(raw, m, release_check_link(m.link, m.version))

\* release::parse: Ok(Release) or Err(NoMatchFound)
ReleaseParse(raw) ==
    IF UnreleasedMatch(raw)
    THEN [ok |-> TRUE, line |-> raw, fixed |-> "## Unreleased", version |-> "Unreleased",
          change_types |-> <<>>,
          problems |-> IF "## Unreleased" # raw
                       THEN <<"Unreleased header is malformed; expected: '## Unreleased'; got: '"
                               \o raw \o "'">>
                       ELSE <<>>]
    ELSE ReleaseFromCaptures(raw, ReleaseCaptures(raw))

\* Release::is_legacy: Ok(bool) or Err
Release_is_legacy_inverted(release, lv_config) ==
    IF is_unreleased(release) \/ ~has_legacy_version(lv_config)
    THEN [ok |-> TRUE, val |-> FALSE]
    ELSE LET lv == VersionParse(lv_config[1])
             pv == VersionParse(release.version)
         IN  IF ~lv.ok \/ ~pv.ok THEN [ok |-> FALSE, val |-> FALSE]
             ELSE [ok |-> TRUE, val |-> gt(pv, lv)]

Release_is_legacy(release, lv_config) ==
    IF is_unreleased(release) \/ ~has_legacy_version(lv_config)
    THEN [ok |-> TRUE, val |-> FALSE]
    ELSE LET lv == VersionParse(lv_config[1])
             pv == VersionParse(release.version)
         IN  IF ~lv.ok \/ ~pv.ok THEN [ok |-> FALSE, val |-> FALSE]
             ELSE [ok |-> TRUE, val |-> ~gt(pv, lv)]

(***************************************************************************)
(* Input documents: the lines an input changelog is made of.               *)
(***************************************************************************)
L_unreleased == "## Unreleased"
L_release_new == "## [v1.0.1](h/r/releases/tag/v1.0.1) - 2024-04-27"
L_release_old == "## [v0.9.0](h/r/releases/tag/v0.9.0) - 2024-01-01"
L_release_bad == "## invalid"
\* a release header of the dated form whose major version is above u8::MAX
L_release_overflow == "## [v256.0.0](h/r/releases/tag/v256.0.0) - 2024-04-27"
L_change_type == "### Bug Fixes"
L_change_type_bad == "### !"
L_entry_1 == "- (cli) [#1](h/r/pull/1) add a"
L_entry_2 == "- (cli) [#2](h/r/pull/2) Fix b."
L_entry_invalid == "- malformed"
L_entry_invalid_indented == "  - malformed"
L_escape_full == "<!-- clu-disable-next-line -->"
L_escape_dup == "<!-- clu-disable-next-line-duplicate-pr -->"
L_comment == "<!-- note -->"
L_comment_open == "<!-- open"
L_comment_close == "close -->"
L_text == "Some text"

Scenarios == {"duplicates", "escapes", "legacy", "comments", "errors"}

Vocabulary(sc) ==
    CASE sc = "duplicates" ->
           {L_unreleased, L_release_new, L_change_type, L_entry_1, L_entry_2, L_escape_dup}
      [] sc = "escapes" ->
           {L_unreleased, L_change_type, L_entry_1, L_entry_invalid, L_escape_full, L_escape_dup}
      [] sc = "legacy" ->
           {L_unreleased, L_release_new, L_release_old, L_release_overflow, L_change_type,
            L_entry_1, L_entry_invalid_indented}
      [] sc = "comments" ->
           {L_unreleased, L_change_type, L_entry_2, L_comment, L_comment_open, L_comment_close}
      [] sc = "errors" ->
           {L_unreleased, L_release_bad, L_change_type, L_change_type_bad, L_entry_invalid,
            L_escape_full, L_text}

\* the configured legacy version of a scenario
LegacyVersions(sc) == IF sc = "legacy" THEN {NoLegacy, <<"v1.0.0">>} ELSE {NoLegacy}

(***************************************************************************)
(* What the loop of parse_changelog computes from a line alone: the tests  *)
(* that pick the branch and the result of the parser of that branch.  The  *)
(* actions below take the line l together with its facts f.                *)
(***************************************************************************)
LineFacts(l) ==
    LET trimmed_line == Trim(l)
    IN  [enters_comment |-> Contains(trimmed_line, "<!--"),
         exits_comment |-> Contains(trimmed_line, "-->"),
         escape |-> check_escape_pattern(trimmed_line),
         is_release |-> StartsWith(trimmed_line, "## "),
         is_change_type |-> StartsWith(trimmed_line, "### "),
         is_dash |-> StartsWith(trimmed_line, "-"),
         release |-> ReleaseParse(l),
         change_type |-> ChangeTypeParse(l),
         entry |-> EntryParse(l)]

AllInputLines == UNION {Vocabulary(sc) : sc \in Scenarios}

\* the lines the serializer can write for a line with the facts f
FixedLines(f) == {f.release.fixed, f.change_type.fixed, f.entry.fixed}

\* the input lines and the lines the serializer makes of them
KnownLines ==
    AllInputLines \cup UNION {FixedLines(LineFacts(l)) : l \in AllInputLines}
        \cup {"# Changelog", ""}

\* the facts of the lines known beforehand, computed once
FactsTable == [l \in KnownLines |-> LineFacts(l)]

Facts(l) == FactsTable[l]

(***************************************************************************)
(* State.                                                                  *)
(***************************************************************************)
VARIABLES
    scenario,          \* the vocabulary the input document is drawn from
    legacy_version,    \* config.legacy_version
    limit,             \* the number of lines of the longest input document
    pass,              \* 1: the input document, 2: the written file parsed again
    written,           \* the lines written by Changelog::write (<<>> before)
    status,            \* "scanning", "ok" (a Changelog returned), "err", "panic"
    branch,            \* the branch of the loop body the line consumed last took
    i,                 \* the number of lines consumed
    line,              \* the line consumed last
    n_releases,
    n_change_types,
    comments,
    legacy_contents,
    releases,
    problems,
    current_release,
    seen_releases,
    seen_change_types,
    seen_prs,
    escapes,
    is_comment,
    is_legacy,
    va,                \* inputs and result of the version functions
    vb,
    vres,
    n_adds,            \* the number of add_entry calls on the returned changelog
    add_args,          \* the arguments of the last add_entry call
    fix,               \* the fix flag of the lint command
    lint_result,       \* what lint::run returned ("none" before it ran)
    file_rewritten,    \* lint::run wrote the changelog file
    call_args,         \* arguments and result of a checker called on its own
    call_result,
    dir_contents,      \* the changelog directory of the multi-file parse
    multi              \* the multi-file parse: open directories, releases, problems

cfgvars == <<scenario, legacy_version, limit, pass, written>>

scanvars == <<status, branch, i, line, n_releases, n_change_types, comments,
              legacy_contents, releases, problems, current_release, seen_releases,
              seen_change_types, seen_prs, escapes, is_comment, is_legacy>>

vervars == <<va, vb, vres>>

cmdvars == <<n_adds, add_args, fix, lint_result, file_rewritten>>

callvars == <<call_args, call_result>>

multivars == <<dir_contents, multi>>

\* what the parse loop never touches
sidevars == <<vervars, cmdvars, callvars, multivars>>

vars == <<cfgvars, scanvars, sidevars>>

\* release::new_empty_release
new_empty_release ==
    [line |-> "", fixed |-> "", version |-> "", change_types |-> <<>>, problems |-> <<>>]

\* the locals of parse_changelog before the loop
ScanStart ==
    /\ status = "scanning"
    /\ branch = "start"
    /\ i = 0
    /\ line = ""
    /\ n_releases = 0
    /\ n_change_types = 0
    /\ comments = <<>>
    /\ legacy_contents = <<>>
    /\ releases = <<>>
    /\ problems = <<>>
    /\ current_release = new_empty_release
    /\ seen_releases = <<>>
    /\ seen_change_types = <<>>
    /\ seen_prs = <<>>
    /\ escapes = <<>>
    /\ is_comment = FALSE
    /\ is_legacy = FALSE

\* no call of a version function yet
NoResult == [op |-> "none", ok |-> TRUE, val |-> FALSE]

NoVersionCall == va = "" /\ vb = NoLegacy /\ vres = NoResult

\* no add_entry call yet
NoAddArgs == [change_type |-> "", cat |-> "", desc |-> "", pr |-> 0]

\* no command has run on the changelog
NoCommand ==
    /\ n_adds = 0
    /\ add_args = NoAddArgs
    /\ fix = FALSE
    /\ lint_result = "none"
    /\ file_rewritten = FALSE

\* no checker called on its own
NoEntryParts == [ws0 |-> "", cat |-> "", bs |-> "", pr |-> "", link |-> "", desc |-> ""]

NoCallArgs == [op |-> "none", text |-> "", pr |-> 0, pattern |-> "", parts |-> NoEntryParts]

NoCallResult ==
    [done |-> FALSE, ok |-> TRUE, panic |-> FALSE, fixed |-> "", problems |-> <<>>]

NoCall == call_args = NoCallArgs /\ call_result = NoCallResult

\* no multi-file parse
NoRelease == [version |-> "", path |-> "", problems |-> <<>>, change_types |-> <<>>]

NoChangeType == [name |-> "", fixed |-> "", path |-> "", problems |-> <<>>, entries |-> <<>>]

NoMultiParse ==
    [status |-> "none", dir_items |-> {}, rel_open |-> FALSE, rel_items |-> {},
     ct_open |-> FALSE, ct_items |-> {}, cur_rel |-> NoRelease, cur_ct |-> NoChangeType,
     releases |-> <<>>, problems |-> <<>>]

NoMulti == dir_contents = {} /\ multi = NoMultiParse

Init ==
    /\ scenario \in Scenarios
    /\ legacy_version \in LegacyVersions(scenario)
    /\ limit = MaxLines
    /\ pass = 1
    /\ written = <<>>
    /\ ScanStart
    /\ NoVersionCall
    /\ NoCommand
    /\ NoCall
    /\ NoMulti

(***************************************************************************)
(* Helpers of the loop.                                                    *)
(***************************************************************************)
\* a Vec::contains that looks at the last element only
SeqContainsLast(seq, x) == seq # <<>> /\ seq[Len(seq)] = x

\* Vec::contains
SeqContains(seq, x) == \E k \in 1..Len(seq) : seq[k] = x

\* a Vec::clear that leaves the elements in place
Vec_clear_kept(v) == v

\* Vec::clear
Vec_clear(v) == <<>>

\* a push of the trimmed line onto the legacy contents
legacy_push_trimmed(legacy, l) == Append(legacy, Trim(l))

\* legacy_contents.push(line.to_string())
legacy_push(legacy, l) == Append(legacy, l)

\* add_to_problems: the problem tagged with the 1-based number of the line
add_to_problems_zero_based(probs, ln, problem) ==
    Append(probs, [line |-> ln, msg |-> problem])

add_to_problems(probs, ln, problem) ==
    Append(probs, [line |-> ln + 1, msg |-> problem])

RECURSIVE add_all_to_problems(_, _, _)
add_all_to_problems(probs, ln, ps) ==
    IF ps = <<>> THEN probs
    ELSE add_all_to_problems(add_to_problems(probs, ln, Head(ps)), ln, Tail(ps))

\* the lines the loop can see next
InputLines ==
    IF pass = 1
    THEN IF i < limit THEN Vocabulary(scenario) ELSE {}
    ELSE IF i < Len(written) THEN {written[i + 1]} ELSE {}

\* is_comment after the test of the opening of a comment
in_comment(f) == is_comment \/ f.enters_comment

\* the part of an iteration every branch shares
Consume(l, b) ==
    /\ status = "scanning"
    /\ l \in InputLines
    /\ i' = i + 1
    /\ line' = l
    /\ branch' = b
    /\ UNCHANGED <<cfgvars, sidevars>>

\* a '?' that never returns early
Result_is_err_never(r) == FALSE

\* the test of the '?' after a parser call: the Result is an Err
Result_is_err(r) == ~r.ok

\* the parse stops with an Err or a panic: no Changelog is returned
Abort(how) ==
    /\ status' = how
    /\ UNCHANGED <<n_releases, n_change_types, comments, legacy_contents, releases,
                   problems, current_release, seen_releases, seen_change_types,
                   seen_prs, escapes, is_comment, is_legacy>>

(***************************************************************************)
(* The loop body of parse_changelog, one action per branch.                *)
(***************************************************************************)
\* after the first legacy release every line is archived
LegacyLine(l, f) ==
    /\ Consume(l, "legacy")
    /\ is_legacy
    /\ legacy_contents' = legacy_push(legacy_contents, l)
    /\ UNCHANGED <<status, n_releases, n_change_types, comments, releases, problems,
                   current_release, seen_releases, seen_change_types, seen_prs,
                   escapes, is_comment>>
    /\ UNCHANGED is_legacy

\* a line that closes a comment (the comment may open on the same line)
CommentExitLine(l, f) ==
    /\ Consume(l, "comment_exit")
    /\ ~is_legacy
    /\ in_comment(f) /\ f.exits_comment
    /\ is_comment' = FALSE
    /\ comments' = Append(comments, l)
    /\ escapes' = escapes \o f.escape
    /\ UNCHANGED <<status, n_releases, n_change_types, legacy_contents, releases,
                   problems, current_release, seen_releases, seen_change_types,
                   seen_prs, is_legacy>>

\* a line inside a comment that stays open
CommentLine(l, f) ==
    /\ Consume(l, "comment")
    /\ ~is_legacy
    /\ in_comment(f) /\ ~f.exits_comment
    /\ is_comment' = TRUE
    /\ comments' = Append(comments, l)
    /\ UNCHANGED <<status, n_releases, n_change_types, legacy_contents, releases,
                   problems, current_release, seen_releases, seen_change_types,
                   seen_prs, escapes, is_legacy>>

\* a release header
ReleaseLine(l, f) ==
    /\ Consume(l, "release")
    /\ ~is_legacy /\ ~in_comment(f)
    /\ f.is_release
    /\ LET parsed == f.release
           rel == [line |-> parsed.line, fixed |-> parsed.fixed,
                   version |-> parsed.version, change_types |-> <<>>,
                   problems |-> parsed.problems]
           dup == SeqContains(seen_releases, rel.version)
           p1 == IF dup
                 THEN add_to_problems(problems, i, "duplicate release: " \o rel.version)
                 ELSE problems
           lg == Release_is_legacy(rel, legacy_version)
       IN  IF Result_is_err(parsed) THEN Abort("err")
           ELSE IF ~lg.ok THEN Abort("panic")
           ELSE /\ current_release' = rel
                /\ releases' = Append(releases, rel)
                /\ n_releases' = n_releases + 1
                /\ seen_releases' = IF dup THEN seen_releases
                                    ELSE Append(seen_releases, rel.version)
                /\ seen_change_types' = Vec_clear(seen_change_types)
                /\ n_change_types' = 0
                /\ is_legacy' = lg.val
                /\ problems' = add_all_to_problems(p1, i, rel.problems)
                /\ UNCHANGED <<status, comments, legacy_contents, seen_prs, escapes,
                               is_comment>>

\* a change type header
ChangeTypeLine(l, f) ==
    /\ Consume(l, "change_type")
    /\ ~is_legacy /\ ~in_comment(f)
    /\ ~f.is_release
    /\ f.is_change_type
    /\ LET parsed == f.change_type
           ct == [name |-> parsed.name, fixed |-> parsed.fixed,
                  problems |-> parsed.problems, entries |-> <<>>]
           dup == SeqContains(seen_change_types, ct.name)
           p1 == IF dup
                 THEN add_to_problems(problems, i,
                          "duplicate change type in release " \o current_release.version
                              \o ": " \o ct.name)
                 ELSE problems
       IN  IF Result_is_err(parsed) THEN Abort("err")
           \* releases.get_mut(n_releases - 1) with no release
           ELSE IF n_releases = 0 THEN Abort("panic")
           ELSE /\ n_change_types' = n_change_types + 1
                /\ seen_change_types' = IF dup THEN seen_change_types
                                        ELSE Append(seen_change_types, ct.name)
                /\ problems' = add_all_to_problems(p1, i, ct.problems)
                /\ releases' = [releases EXCEPT ![n_releases].change_types = Append(@, ct)]
                /\ UNCHANGED <<status, n_releases, comments, legacy_contents,
                               current_release, seen_releases, seen_prs, escapes,
                               is_comment, is_legacy>>

IsDashLine(f) ==
    /\ ~is_legacy /\ ~in_comment(f)
    /\ ~f.is_release
    /\ ~f.is_change_type
    /\ f.is_dash

\* any other line is skipped
OtherLine(l, f) ==
    /\ Consume(l, "other")
    /\ ~is_legacy /\ ~in_comment(f)
    /\ ~f.is_release
    /\ ~f.is_change_type
    /\ ~f.is_dash
    /\ UNCHANGED <<status, n_releases, n_change_types, comments, legacy_contents,
                   releases, problems, current_release, seen_releases,
                   seen_change_types, seen_prs, escapes, is_comment, is_legacy>>

\* a '-' line the entry parser rejects
EntryInvalidLine(l, f) ==
    /\ Consume(l, "entry_invalid")
    /\ IsDashLine(f)
    /\ ~f.entry.ok
    /\ problems' = IF ~SeqContains(escapes, "FullLine")
                   THEN add_to_problems(problems, i, f.entry.err)
                   ELSE problems
    /\ escapes' = Vec_clear(escapes)
    /\ UNCHANGED <<status, n_releases, n_change_types, comments, legacy_contents,
                   releases, current_release, seen_releases, seen_change_types,
                   seen_prs, is_comment, is_legacy>>

\* an entry under a pending escape leaves the seen PR numbers alone
seen_prs_unless_escaped(seen, escs, pr) ==
    IF escs # <<>> \/ SeqContains(seen, pr) THEN seen ELSE Append(seen, pr)

\* the seen PR numbers after an entry: the number is pushed unless a
\* duplicate was reported
seen_prs_push(seen, escs, pr) ==
    IF /\ SeqContains(seen, pr)
       /\ ~SeqContains(escs, "DuplicatePR")
       /\ ~SeqContains(escs, "FullLine")
    THEN seen
    ELSE Append(seen, pr)

\* a '-' line the entry parser accepts
EntryLine(l, f) ==
    /\ Consume(l, "entry")
    /\ IsDashLine(f)
    /\ f.entry.ok
    /\ LET parsed == f.entry
           current_entry == [category |-> parsed.category, fixed |-> parsed.fixed,
                             pr_number |-> parsed.pr_number, problems |-> parsed.problems]
           dup == /\ SeqContains(seen_prs, current_entry.pr_number)
                  /\ ~SeqContains(escapes, "DuplicatePR")
                  /\ ~SeqContains(escapes, "FullLine")
           p1 == IF dup
                 THEN add_to_problems(problems, i,
                          "duplicate PR: #" \o ToString(current_entry.pr_number))
                 ELSE problems
           p2 == IF ~SeqContains(escapes, "FullLine")
                 THEN add_all_to_problems(p1, i, current_entry.problems)
                 ELSE p1
       IN  \* a checker panics, or there is no release or no change type to attach to
           IF parsed.panic \/ n_releases = 0 \/ n_change_types = 0 THEN Abort("panic")
           ELSE /\ seen_prs' = seen_prs_push(seen_prs, escapes, current_entry.pr_number)
                /\ problems' = p2
                /\ releases' =
                       [releases EXCEPT
                           ![n_releases].change_types[n_change_types].entries =
                               Append(@, current_entry)]
                /\ escapes' = Vec_clear(escapes)
                /\ UNCHANGED <<status, n_releases, n_change_types, comments,
                               legacy_contents, current_release, seen_releases,
                               seen_change_types, is_comment, is_legacy>>

\* the end of the document: Ok(Changelog { .. })
Finish ==
    /\ status = "scanning"
    /\ pass = 2 => i = Len(written)
    /\ status' = "ok"
    /\ UNCHANGED <<cfgvars, sidevars, branch, i, line, n_releases, n_change_types, comments,
                   legacy_contents, releases, problems, current_release, seen_releases,
                   seen_change_types, seen_prs, escapes, is_comment, is_legacy>>

(***************************************************************************)
(* The canonical serializer.  A text is the sequence of its lines: every   *)
(* piece the serializer pushes ends with a line feed.                      *)
(***************************************************************************)
RECURSIVE EntriesFixed(_)
EntriesFixed(entries) ==
    IF entries = <<>> THEN <<>> ELSE <<Head(entries).fixed>> \o EntriesFixed(Tail(entries))

\* ChangeType::get_fixed_contents
ChangeType_get_fixed_contents(ct) == <<ct.fixed, "">> \o EntriesFixed(ct.entries)

RECURSIVE ChangeTypesFixed(_)
ChangeTypesFixed(cts) ==
    IF cts = <<>> THEN <<>>
    ELSE <<"">> \o ChangeType_get_fixed_contents(Head(cts)) \o ChangeTypesFixed(Tail(cts))

\* Release::get_fixed_contents
Release_get_fixed_contents(release) ==
    <<release.fixed>> \o ChangeTypesFixed(release.change_types)

RECURSIVE ReleasesFixed(_)
ReleasesFixed(rels) ==
    IF rels = <<>> THEN <<>>
    ELSE <<"">> \o Release_get_fixed_contents(Head(rels)) \o ReleasesFixed(Tail(rels))

\* Changelog::get_fixed_contents
get_fixed_contents(cs, rels, legacy) ==
    cs \o <<"# Changelog">> \o ReleasesFixed(rels) \o legacy

\* Changelog::write of the returned changelog, and the start of the next parse
\* of the written file
WriteAndParseAgain ==
    /\ status = "ok"
    /\ pass = 1
    /\ written' = get_fixed_contents(comments, releases, legacy_contents)
    /\ pass' = 2
    /\ status' = "scanning"
    /\ branch' = "start"
    /\ i' = 0
    /\ line' = ""
    /\ n_releases' = 0
    /\ n_change_types' = 0
    /\ comments' = <<>>
    /\ legacy_contents' = <<>>
    /\ releases' = <<>>
    /\ problems' = <<>>
    /\ current_release' = new_empty_release
    /\ seen_releases' = <<>>
    /\ seen_change_types' = <<>>
    /\ seen_prs' = <<>>
    /\ escapes' = <<>>
    /\ is_comment' = FALSE
    /\ is_legacy' = FALSE
    /\ UNCHANGED <<scenario, legacy_version, limit, sidevars>>

Next ==
    \/ \E l \in InputLines : LegacyLine(l, Facts(l))
    \/ \E l \in InputLines : CommentExitLine(l, Facts(l))
    \/ \E l \in InputLines : CommentLine(l, Facts(l))
    \/ \E l \in InputLines : ReleaseLine(l, Facts(l))
    \/ \E l \in InputLines : ChangeTypeLine(l, Facts(l))
    \/ \E l \in InputLines : OtherLine(l, Facts(l))
    \/ \E l \in InputLines : EntryInvalidLine(l, Facts(l))
    \/ \E l \in InputLines : EntryLine(l, Facts(l))
    \/ Finish

\* parse_changelog on every document of at most MaxLines lines
Spec == Init /\ [][Next]_vars

(***************************************************************************)
(* The fix: parse, write the fixed contents, parse the written file again. *)
(***************************************************************************)
InitFix ==
    /\ scenario \in Scenarios
    /\ legacy_version \in LegacyVersions(scenario)
    /\ limit = MaxFixLines
    /\ pass = 1
    /\ written = <<>>
    /\ ScanStart
    /\ NoVersionCall
    /\ NoCommand
    /\ NoCall
    /\ NoMulti

NextFix ==
    \/ Next
    \/ WriteAndParseAgain

SpecFix == InitFix /\ [][NextFix]_vars

(***************************************************************************)
(* The version functions on their own: Version::gt and Release::is_legacy  *)
(* applied to every pair of a release version and a configured legacy      *)
(* version with components up to MaxComponent.                             *)
(***************************************************************************)
Components == 0..MaxComponent

Versions ==
    [major : Components, minor : Components, patch : Components,
     rc_version : {NoRc} \cup Components]

\* a version whose major number does not fit a u8
L_version_overflow == "v256.0.0"

\* Release.version as release::parse can set it
ReleaseVersions ==
    {VersionToString(v) : v \in Versions} \cup {"Unreleased", L_version_overflow}

\* config.legacy_version
LegacyConfigs == {NoLegacy} \cup {<<s>> : s \in ReleaseVersions \ {"Unreleased"}}

InitVersion ==
    /\ scenario = "legacy"
    /\ legacy_version = NoLegacy
    /\ limit = 0
    /\ pass = 1
    /\ written = <<>>
    /\ ScanStart
    /\ va \in ReleaseVersions
    /\ vb \in LegacyConfigs
    /\ vres = NoResult
    /\ NoCommand
    /\ NoCall
    /\ NoMulti

\* self.gt(&other) with self parsed from va and other from vb
CallGt ==
    /\ vres = NoResult
    /\ vb # NoLegacy
    /\ VersionParse(va).ok /\ VersionParse(vb[1]).ok
    /\ vres' = [op |-> "gt", ok |-> TRUE,
                val |-> gt(VersionParse(va), VersionParse(vb[1]))]
    /\ UNCHANGED <<cfgvars, scanvars, va, vb, cmdvars, callvars, multivars>>

\* release.is_legacy(&config) for the release of version va and the legacy
\* version vb
CallIsLegacy ==
    /\ vres = NoResult
    /\ LET r == Release_is_legacy([new_empty_release EXCEPT !.version = va], vb)
       IN  vres' = [op |-> "is_legacy", ok |-> r.ok, val |-> r.val]
    /\ UNCHANGED <<cfgvars, scanvars, va, vb, cmdvars, callvars, multivars>>

NextVersion ==
    \/ CallGt
    \/ CallIsLegacy

SpecVersion == InitVersion /\ [][NextVersion]_vars

(***************************************************************************)
(* The add command: add_entry on the changelog parse_changelog returned.   *)
(***************************************************************************)
\* number of lines of an input document that entries are added to
MaxAddLines == 3
\* number of add_entry calls on one changelog
MaxAdds == 2

\* Entry::new
Entry_new(category, description, pr_number) ==
    [category |-> category,
     fixed |-> build_fixed(category, target_repo \o "/pull/" \o ToString(pr_number),
                           description, pr_number),
     pr_number |-> pr_number,
     problems |-> <<>>]

\* release::new_unreleased
new_unreleased ==
    [line |-> "## Unreleased", fixed |-> "## Unreleased", version |-> "Unreleased",
     change_types |-> <<>>, problems |-> <<>>]

\* change_type::new
ChangeType_new(name, entries) ==
    [name |-> name, fixed |-> "### " \o name, problems |-> <<>>, entries |-> entries]

\* releases.iter_mut().find(|r| r.is_unreleased()): the index of the first
\* Unreleased release, 0 for None
FindUnreleased(rels) ==
    IF \E k \in 1..Len(rels) : is_unreleased(rels[k])
    THEN CHOOSE k \in 1..Len(rels) :
             is_unreleased(rels[k]) /\ \A j \in 1..(k - 1) : ~is_unreleased(rels[j])
    ELSE 0

\* the lookup loop over the change types of Unreleased: idx is set at every
\* change type of the name, so the last one stays
FindChangeType(cts, name) ==
    IF \E k \in 1..Len(cts) : cts[k].name = name
    THEN [change_type_is_found |-> TRUE,
          idx |-> CHOOSE k \in 1..Len(cts) :
                      cts[k].name = name /\ \A j \in (k + 1)..Len(cts) : cts[j].name # name]
    ELSE [change_type_is_found |-> FALSE, idx |-> 0]

\* a Vec::insert(0, x) that puts the element last
Vec_insert_last(v, x) == Append(v, x)

\* Vec::insert(0, x)
Vec_insert_front(v, x) == <<x>> \o v

\* what the add command can be asked to add
AddChangeTypes == {"Bug Fixes", "Features"}

\* the empty category makes a line entry::parse rejects
AddCategories == {"cli", ""}

AddDescriptions == {"Fix c.", "add c", "fix xapi and api"}

AddPrs == {3}

AddInputs ==
    [change_type : AddChangeTypes, cat : AddCategories, desc : AddDescriptions, pr : AddPrs]

\* entry::parse of the fixed line of Entry::new, for every entry that can be asked
AddParsed == [a \in AddInputs |-> EntryParse(Entry_new(a.cat, a.desc, a.pr).fixed)]

\* add_entry: the releases afterwards; panic when entry::parse(..).unwrap()
\* fails, after the Unreleased release was put in front
add_entry(rels, a, parsed) ==
    LET found == FindUnreleased(rels)
        with_unreleased == IF found = 0 THEN <<new_unreleased>> \o rels ELSE rels
        u == IF found = 0 THEN 1 ELSE found
        ct == FindChangeType(with_unreleased[u].change_types, a.change_type)
        new_fixed_entry == [category |-> parsed.category, fixed |-> parsed.fixed,
                            pr_number |-> parsed.pr_number, problems |-> parsed.problems]
    IN  IF ~parsed.ok \/ parsed.panic
        THEN [panic |-> TRUE, releases |-> with_unreleased]
        ELSE IF ct.change_type_is_found
        THEN [panic |-> FALSE,
              releases |-> [with_unreleased EXCEPT
                               ![u].change_types[ct.idx].entries =
                                   Vec_insert_front(@, new_fixed_entry)]]
        ELSE [panic |-> FALSE,
              releases |-> [with_unreleased EXCEPT
                               ![u].change_types =
                                   Append(@, ChangeType_new(a.change_type,
                                                            <<new_fixed_entry>>))]]

\* one add_entry call on the changelog that was returned
AddEntry ==
    /\ status = "ok"
    /\ n_adds < MaxAdds
    /\ \E a \in AddInputs :
           LET r == add_entry(releases, a, AddParsed[a])
           IN  /\ add_args' = a
               /\ releases' = r.releases
               /\ status' = IF r.panic THEN "panic" ELSE "ok"
    /\ n_adds' = n_adds + 1
    /\ branch' = "add_entry"
    /\ UNCHANGED <<cfgvars, vervars, callvars, multivars, fix, lint_result, file_rewritten,
                   i, line, n_releases, n_change_types, comments, legacy_contents,
                   problems, current_release, seen_releases, seen_change_types,
                   seen_prs, escapes, is_comment, is_legacy>>

InitAdd ==
    /\ scenario \in Scenarios
    /\ legacy_version \in LegacyVersions(scenario)
    /\ limit = MaxAddLines
    /\ pass = 1
    /\ written = <<>>
    /\ ScanStart
    /\ NoVersionCall
    /\ NoCommand
    /\ NoCall
    /\ NoMulti

NextAdd ==
    \/ Next
    \/ AddEntry

\* parse_changelog, then add_entry up to MaxAdds times
SpecAdd == InitAdd /\ [][NextAdd]_vars

(***************************************************************************)
(* The entry parser and the checkers called on their own, on entry lines   *)
(* put together from parts and on links, descriptions and texts.           *)
(***************************************************************************)
\* check_description of src/entry.rs: the dot is appended to the description
\* as it was given
entry_check_description(desc) ==
    LET first_letter == Ch(desc, 1)
        cap == first_letter \in LowerLetters
        fixed1 == IF cap THEN ToUpperChar(first_letter) \o From(desc, 2) ELSE desc
        p1 == IF cap
              THEN <<"PR description should start with capital letter: '" \o desc \o "'">>
              ELSE <<>>
        dot == Ch(desc, Len(desc)) # "."
        fixed2 == IF dot THEN desc \o "." ELSE fixed1
        p2 == IF dot
              THEN <<"PR description should end with a dot: '" \o desc \o "'">>
              ELSE <<>>
        sp == check_spelling(fixed2)
    IN  [fixed |-> sp.fixed, problems |-> p1 \o p2 \o sp.problems, panic |-> FALSE]

\* a PR number one above u64::MAX
L_pr_overflow == "18446744073709551616"

PrTexts == {"1", "01", L_pr_overflow}

LinkKinds == {"as_written", "canonical", "other_number", "other_repo", "empty"}

\* the link of an entry line for the PR number written as prtext
LinkFor(kind, prtext) ==
    CASE kind = "as_written" -> target_repo \o "/pull/" \o prtext
      [] kind = "canonical" -> target_repo \o "/pull/" \o StripZeros(prtext)
      [] kind = "other_number" -> target_repo \o "/pull/2"
      [] kind = "other_repo" -> "x/y/pull/" \o prtext
      [] kind = "empty" -> ""

EntryParts ==
    {[ws0 |-> w, cat |-> c, bs |-> b, pr |-> n, link |-> LinkFor(k, n), desc |-> d] :
        w \in {"", " "}, c \in {"cli", "CLI"}, b \in {"", "\\"}, n \in PrTexts,
        k \in LinkKinds, d \in {"Fix b.", "add a"}}

\* the entry line made of the parts, with one space at each token boundary
EntryLineOf(e) ==
    e.ws0 \o "- (" \o e.cat \o ") [" \o e.bs \o "#" \o e.pr \o "](" \o e.link \o ") "
        \o e.desc

Links ==
    {"h/r/pull/1", "h/r/pull/2", "h/r/pull/01", "x/y/pull/1", "x/y/pull/2",
     "h/r/pull/a", "h/r/pull/", "1", ""}

LinkPrs == {1, 2}

Descriptions ==
    {"add Python implementation", "Add Python implementation",
     "add Python implementation.", "Add Python implementation.", "add a", "Fix b.", "1 a"}

SpellingTexts ==
    {"Fix aPi.", "FixApI", "Fix api", "api", "Fix b.",
     Backtick \o "aPi in codeblocks" \o Backtick,
     "Fix " \o Backtick \o "api" \o Backtick \o " and aPi.",
     Backtick \o "a" \o Backtick \o " api " \o Backtick \o "b" \o Backtick}

\* texts with more than one occurrence of the configured spelling pattern
RepeatedSpellingTexts ==
    SpellingTexts \cup {"Fix api.", "Fix api and api.", "Fixapi and api.", "Fix API and api.",
                        "api Api"}

\* release header lines
ReleaseHeaders ==
    {L_release_new, L_unreleased, L_release_bad,
     "##  [v1.0.1](h/r/releases/tag/v1.0.1) - 2024-04-27",
     " ## [v1.0.1](h/r/releases/tag/v1.0.1) - 2024-04-27",
     "## [v1.0.1](h/r/releases/tag/v1.0.1)  -  2024-04-27",
     "## [v1.0.1](h/r/releases/tag/v1.0.1)- 2024-04-27",
     "## [v1.0.1] - 2024-04-27",
     "## [v1.0.1](x/y/releases/tag/v1.0.1) - 2024-04-27",
     "## [v1.0.1-rc1](h/r/releases/tag/v1.0.1-rc1) - 2024-04-27",
     "## unreleased", "##  Unreleased", " ## Unreleased", "## Unreleased "}

\* change type header lines
ChangeTypeHeaders ==
    {"### Bug Fixes", "### BugFixes", "### bug fixes", "###  Bug Fixes", " ### Bug Fixes",
     "### Bug Fixes ", "###Bug Fixes", "### Other", "### !"}

\* u16::MAX in digits
U16MaxDigits == "65535"

\* str::parse::<u16>() of a run of digits is Ok
FitsU16(s) ==
    LET t == StripZeros(s)
    IN  Len(t) < Len(U16MaxDigits) \/ (Len(t) = Len(U16MaxDigits) /\ DigitsLeq(t, U16MaxDigits))

\* check_link of src/entry.rs: the link's number is parsed as a u16
entry_rs_check_link(link, pr_number) ==
    LET fixed == target_repo \o "/pull/" \o ToString(pr_number)
        p1 == IF ~StartsWith(link, target_repo)
              THEN <<"PR link points to wrong repository: " \o link>>
              ELSE <<>>
        last == LastSegment(link)
    IN  IF ~AllDigits(last) \/ ~FitsU16(last)
        THEN [fixed |-> fixed, problems |-> p1, panic |-> TRUE]
        ELSE LET p2 == IF ParseNum(last) # pr_number
                       THEN <<"PR link is not matching PR number "
                               \o ToString(pr_number) \o ": '" \o link \o "'">>
                       ELSE <<>>
             IN  [fixed |-> fixed, problems |-> p1 \o p2, panic |-> FALSE]

\* the problem of an escaped '#' in the PR link (src/entry.rs)
backslash_problem == "There should be no backslash in front of the # in the PR link"

\* parse of src/entry.rs after the checkers have run
EntryRsChecked(pr_number, ws, cat, bs, lnk, dsc) ==
    [ok |-> TRUE,
     panic |-> lnk.panic,
     err |-> "",
     category |-> cat.fixed,
     fixed |-> "- (" \o cat.fixed \o ") [#" \o ToString(pr_number) \o "](" \o lnk.fixed
                   \o ") " \o dsc.fixed,
     pr_number |-> pr_number,
     problems |-> ws \o cat.problems \o (IF bs THEN <<backslash_problem>> ELSE <<>>)
                     \o lnk.problems \o dsc.problems]

\* parse of src/entry.rs after the match; the PR number is a u16
EntryRsFromCaptures(raw, m) ==
    IF ~m.matched
    THEN [ok |-> FALSE, panic |-> FALSE, err |-> "invalid entry: " \o raw,
          category |-> "", fixed |-> "", pr_number |-> 0, problems |-> <<>>]
    ELSE IF ~FitsU16(m.pr)
    THEN [ok |-> TRUE, panic |-> TRUE, err |-> "", category |-> "", fixed |-> "",
          pr_number |-> 0, problems |-> <<>>]
    ELSE EntryRsChecked(ParseNum(m.pr), check_whitespace(m.spaces),
                        check_category(m.category), m.bs,
                        entry_rs_check_link(m.link, ParseNum(m.pr)),
                        entry_check_description(m.desc))

\* parse of src/entry.rs
entry_rs_parse(raw) == EntryRsFromCaptures(raw, EntryCaptures(raw))

CallInputs ==
    {[op |-> o, text |-> EntryLineOf(e), pr |-> 0, pattern |-> "", parts |-> e] :
        o \in {"entry_parse", "entry_rs_parse"}, e \in EntryParts}
    \cup {[op |-> "check_link", text |-> t, pr |-> n, pattern |-> "", parts |-> NoEntryParts] :
              t \in Links, n \in LinkPrs}
    \cup {[op |-> o, text |-> t, pr |-> 0, pattern |-> "", parts |-> NoEntryParts] :
              o \in {"check_description", "entry_check_description"}, t \in Descriptions}
    \cup {[op |-> "get_spelling_match", text |-> t, pr |-> 0, pattern |-> "api",
           parts |-> NoEntryParts] : t \in SpellingTexts}
    \cup {[op |-> "check_spelling", text |-> t, pr |-> 0, pattern |-> "api",
           parts |-> NoEntryParts] : t \in RepeatedSpellingTexts}
    \cup {[op |-> "release_parse", text |-> t, pr |-> 0, pattern |-> "",
           parts |-> NoEntryParts] : t \in ReleaseHeaders}
    \cup {[op |-> "change_type_parse", text |-> t, pr |-> 0, pattern |-> "",
           parts |-> NoEntryParts] : t \in ChangeTypeHeaders}

InitEntry ==
    /\ scenario = "errors"
    /\ legacy_version = NoLegacy
    /\ limit = 0
    /\ pass = 1
    /\ written = <<>>
    /\ ScanStart
    /\ NoVersionCall
    /\ NoCommand
    /\ call_args \in CallInputs
    /\ call_result = NoCallResult
    /\ NoMulti

\* the frame of a call of a checker on its own
Call(op) ==
    /\ call_args.op = op
    /\ ~call_result.done
    /\ UNCHANGED <<cfgvars, scanvars, vervars, cmdvars, multivars, call_args>>

\* entry::parse(config, line)
CallEntryParse ==
    /\ Call("entry_parse")
    /\ LET r == EntryParse(call_args.text)
       IN  call_result' = [done |-> TRUE, ok |-> r.ok /\ ~r.panic, panic |-> r.panic,
                           fixed |-> r.fixed, problems |-> r.problems]

\* common::entry::check_link(config, link, pr_number)
CallCheckLink ==
    /\ Call("check_link")
    /\ LET r == check_link(call_args.text, call_args.pr)
       IN  call_result' = [done |-> TRUE, ok |-> ~r.panic, panic |-> r.panic,
                           fixed |-> IF r.panic THEN "" ELSE r.fixed,
                           problems |-> IF r.panic THEN <<>> ELSE r.problems]

\* common::entry::check_description(config, desc)
CallCheckDescription ==
    /\ Call("check_description")
    /\ LET r == check_description(call_args.text)
       IN  call_result' = [done |-> TRUE, ok |-> TRUE, panic |-> FALSE,
                           fixed |-> r.fixed, problems |-> r.problems]

\* check_description(config, desc) of src/entry.rs
CallEntryCheckDescription ==
    /\ Call("entry_check_description")
    /\ LET r == entry_check_description(call_args.text)
       IN  call_result' = [done |-> TRUE, ok |-> TRUE, panic |-> FALSE,
                           fixed |-> r.fixed, problems |-> r.problems]

\* get_spelling_match(pattern, text): Ok(match) in fixed
CallGetSpellingMatch ==
    /\ Call("get_spelling_match")
    /\ LET r == get_spelling_match(call_args.pattern, call_args.text)
       IN  call_result' = [done |-> TRUE, ok |-> r.ok, panic |-> FALSE,
                           fixed |-> r.m, problems |-> <<>>]

\* common::entry::check_spelling(config, text)
CallCheckSpelling ==
    /\ Call("check_spelling")
    /\ LET r == check_spelling(call_args.text)
       IN  call_result' = [done |-> TRUE, ok |-> TRUE, panic |-> FALSE,
                           fixed |-> r.fixed, problems |-> r.problems]

\* entry::parse(config, line) of src/entry.rs
CallEntryRsParse ==
    /\ Call("entry_rs_parse")
    /\ LET r == entry_rs_parse(call_args.text)
       IN  call_result' = [done |-> TRUE, ok |-> r.ok /\ ~r.panic, panic |-> r.panic,
                           fixed |-> r.fixed, problems |-> r.problems]

\* release::parse(config, line)
CallReleaseParse ==
    /\ Call("release_parse")
    /\ LET r == ReleaseParse(call_args.text)
       IN  call_result' = [done |-> TRUE, ok |-> r.ok, panic |-> FALSE,
                           fixed |-> r.fixed, problems |-> r.problems]

\* change_type::parse(config, line)
CallChangeTypeParse ==
    /\ Call("change_type_parse")
    /\ LET r == ChangeTypeParse(call_args.text)
       IN  call_result' = [done |-> TRUE, ok |-> r.ok, panic |-> FALSE,
                           fixed |-> r.fixed, problems |-> r.problems]

NextEntry ==
    \/ CallEntryParse
    \/ CallCheckLink
    \/ CallCheckDescription
    \/ CallEntryCheckDescription
    \/ CallGetSpellingMatch
    \/ CallChangeTypeParse
    \/ CallEntryRsParse
    \/ CallCheckSpelling
    \/ CallReleaseParse

SpecEntry == InitEntry /\ [][NextEntry]_vars

(***************************************************************************)
(* The lint command in Single mode: load the changelog, then decide on     *)
(* the problems found and on the fix flag.                                 *)
(***************************************************************************)
MaxLintLines == 3

\* cli::lint::run, Mode::Single, from the outcome of single_file::load: what
\* the command returns and whether it calls Changelog::write
cli_lint_run(fix_flag, load_status, load_problems) ==
    IF load_status # "ok" THEN [result |-> "LoadError", write |-> FALSE]
    ELSE IF load_problems = <<>> THEN [result |-> "Ok", write |-> FALSE]
    ELSE IF fix_flag THEN [result |-> "Ok", write |-> TRUE]
    ELSE [result |-> "ProblemsInChangelog", write |-> FALSE]

\* cli::lint::run after single_file::load has returned a changelog or an error
LintRun ==
    /\ status \in {"ok", "err"}
    /\ pass = 1
    /\ lint_result = "none"
    /\ LET r == cli_lint_run(fix, status, problems)
       IN  /\ lint_result' = r.result
           /\ file_rewritten' = r.write
           /\ written' = IF r.write
                         THEN get_fixed_contents(comments, releases, legacy_contents)
                         ELSE written
    /\ branch' = "lint"
    /\ UNCHANGED <<scenario, legacy_version, limit, pass, status, i, line, n_releases,
                   n_change_types, comments, legacy_contents, releases, problems,
                   current_release, seen_releases, seen_change_types, seen_prs, escapes,
                   is_comment, is_legacy, vervars, n_adds, add_args, fix, callvars,
                   multivars>>

InitLint ==
    /\ scenario \in Scenarios
    /\ legacy_version \in LegacyVersions(scenario)
    /\ limit = MaxLintLines
    /\ pass = 1
    /\ written = <<>>
    /\ ScanStart
    /\ NoVersionCall
    /\ n_adds = 0
    /\ add_args = NoAddArgs
    /\ fix \in BOOLEAN
    /\ lint_result = "none"
    /\ file_rewritten = FALSE
    /\ NoCall
    /\ NoMulti

NextLint ==
    \/ Next
    \/ LintRun

\* lint with and without --fix on every document of at most MaxLintLines lines
SpecLint == InitLint /\ [][NextLint]_vars

(***************************************************************************)
(* The multi-file changelog: a directory of release directories, each with *)
(* change type directories that hold one file per entry.  fs::read_dir     *)
(* yields the items of a directory in any order.                           *)
(***************************************************************************)
use_categories == TRUE

\* Path::join
PathJoin(dir, name) == dir \o "/" \o name

\* common::add_to_problems: ln is <<>> for None and <<l>> for Some(l)
add_to_problems_at(probs, fp, ln, problem) ==
    Append(probs, IF ln = <<>>
                  THEN fp \o ": " \o problem
                  ELSE fp \o ":" \o ToString(ln[1] + 1) \o ": " \o problem)

\* the end of the entry pattern, \(\[#\d+]\s*\([^)]*\)\)\s*$, matches at index t
MultiTailAt(s, t) ==
    LET c2 == SkipDigits(s, t + 3)                  \* ']'
        o3 == SkipWs(s, c2 + 1)                     \* '(' of the link
        c3 == SkipWhile(s, o3 + 1, NotClosingParen) \* ')' of the link
    IN  /\ At(s, t, "([#")
        /\ c2 > t + 3 /\ Ch(s, c2) = "]"
        /\ Ch(s, o3) = "("
        /\ Ch(s, c3) = ")" /\ Ch(s, c3 + 1) = ")"
        /\ SkipWs(s, c3 + 2) > Len(s)

\* index of the last character before t that is not whitespace (0: none)
LastNonWsBefore(s, t) ==
    CHOOSE e \in 0..(t - 1) :
        /\ e = 0 \/ ~IsWs(Ch(s, e))
        /\ \A k \in (e + 1)..(t - 1) : IsWs(Ch(s, k))

\* the last index at which the end of the entry pattern matches (0: nowhere);
\* desc is greedy, so this is where the match of the pattern puts it
LastTail(contents) ==
    CHOOSE t \in 0..Len(contents) :
        /\ t = 0 \/ MultiTailAt(contents, t)
        /\ \A u \in (t + 1)..Len(contents) : ~MultiTailAt(contents, u)

\* the captures of the entry pattern with the end of the pattern at index t
MultiCapturesAt(contents, t) ==
    LET d == SkipWs(contents, 1)                         \* the dash
        o1 == SkipWs(contents, d + 1)                    \* '(' of the category
        c1 == SkipWhile(contents, o1 + 1, IsAlnumDash)   \* ')' of the category
        after == IF use_categories THEN c1 + 1 ELSE d + 1
        w2 == SkipWs(contents, after)
        e == LastNonWsBefore(contents, t)                \* the end of desc
        \* (?P<desc>.+\S) has two characters at least: the whitespace before a
        \* description of one character gives its last character to it
        ds == IF e > w2 THEN w2 ELSE w2 - 1
        c2 == SkipDigits(contents, t + 3)
        o3 == SkipWs(contents, c2 + 1)
        c3 == SkipWhile(contents, o3 + 1, NotClosingParen)
        none == [matched |-> FALSE, category |-> "", pr |-> "", link |-> "", desc |-> "",
                 spaces |-> <<"", "", "", "", "">>]
    IN  IF /\ t > 0
           /\ Ch(contents, d) = "-"
           /\ use_categories =>
                  (Ch(contents, o1) = "(" /\ c1 > o1 + 1 /\ Ch(contents, c1) = ")")
           /\ e >= w2
           /\ ds >= after
        THEN [matched |-> TRUE,
              category |-> IF use_categories THEN SubSeq(contents, o1 + 1, c1 - 1) ELSE "",
              pr |-> SubSeq(contents, t + 3, c2 - 1),
              link |-> SubSeq(contents, o3 + 1, c3 - 1),
              desc |-> SubSeq(contents, ds, e),
              spaces |-> << SubSeq(contents, 1, d - 1),
                            IF use_categories THEN SubSeq(contents, d + 1, o1 - 1)
                            ELSE SubSeq(contents, d + 1, ds - 1),
                            IF use_categories THEN SubSeq(contents, c1 + 1, ds - 1)
                            ELSE "",
                            SubSeq(contents, e + 1, t - 1),
                            SubSeq(contents, c2 + 1, o3 - 1) >>]
        ELSE none

\* the captures of the entry pattern of multi_file::entry::parse on the
\* contents of a file
MultiEntryCaptures(contents) == MultiCapturesAt(contents, LastTail(contents))

\* check_whitespace of the multi-file entry parser
multi_expected_whitespace == <<"", " ", " ", " ", "">>

multi_whitespace_errors ==
    << "There should be no leading whitespace before the dash",
       "There should be exactly one space between the leading dash and the category",
       "There should be exactly one space between the category and the description",
       "There should be exactly one space between the description and the PR link",
       "There should be no whitespace inside of the markdown link" >>

RECURSIVE MultiWhitespaceLoop(_, _)
MultiWhitespaceLoop(spaces, n) ==
    IF n > 5 THEN <<>>
    ELSE (IF spaces[n] # multi_expected_whitespace[n]
          THEN <<multi_whitespace_errors[n]>> ELSE <<>>)
         \o MultiWhitespaceLoop(spaces, n + 1)

multi_check_whitespace(spaces) == MultiWhitespaceLoop(spaces, 1)

\* build_fixed of the multi-file entry: cat is <<>> for None, <<c>> for Some(c)
multi_build_fixed(cat, link, desc, pr) ==
    IF cat # <<>>
    THEN "- (" \o cat[1] \o ") " \o desc \o " [#" \o ToString(pr) \o "](" \o link \o ")"
    ELSE "- " \o desc \o " [#" \o ToString(pr) \o "](" \o link \o ")"

\* multi_file::entry::parse after the checkers have run: the entry returned
MultiEntryChecked(path, pr_number, p0, cat, lnk, dsc, ws) ==
    [ok |-> TRUE,
     panic |-> lnk.panic,
     category |-> IF use_categories THEN <<cat.fixed>> ELSE <<>>,
     fixed |-> multi_build_fixed(IF use_categories THEN <<cat.fixed>> ELSE <<>>,
                                 lnk.fixed, dsc.fixed, pr_number),
     path |-> path,
     pr_number |-> pr_number,
     problems |-> p0 \o cat.problems \o lnk.problems \o dsc.problems \o ws]

\* multi_file::entry::parse after the match: Err(InvalidEntry) without
\* captures m, a panic of parse::<u64>().unwrap(), the checks otherwise
MultiEntryFromCaptures(path, m) ==
    IF ~m.matched
    THEN [ok |-> FALSE, panic |-> FALSE, category |-> <<>>, fixed |-> "",
          path |-> path, pr_number |-> 0, problems |-> <<>>]
    ELSE IF ~FitsU64(m.pr)
    THEN [ok |-> TRUE, panic |-> TRUE, category |-> <<>>, fixed |-> "",
          path |-> path, pr_number |-> 0, problems |-> <<>>]
    ELSE MultiEntryChecked(
             path, ParseNum(m.pr),
             IF ~Contains(LastSegment(path), ToString(ParseNum(m.pr)))
             THEN <<"The filename should be prefixed with the PR number">>
             ELSE <<>>,
             IF use_categories THEN check_category(m.category)
             ELSE [fixed |-> "", problems |-> <<>>, panic |-> FALSE],
             check_link(m.link, ParseNum(m.pr)),
             check_description(m.desc),
             multi_check_whitespace(
                 IF use_categories THEN m.spaces
                 ELSE <<m.spaces[1], " ", m.spaces[2], m.spaces[4], m.spaces[5]>>))

\* multi_file::entry::parse of the file at path: Ok(MultiFileEntry),
\* Err(InvalidEntry) or a panic (PR number above u64::MAX, check_link)
multi_entry_parse(path, contents) ==
    MultiEntryFromCaptures(path, MultiEntryCaptures(contents))

\* str::replace(" ", "-")
RECURSIVE ReplaceSpaces(_)
ReplaceSpaces(s) ==
    IF s = "" THEN ""
    ELSE (IF Head(s) = " " THEN "-" ELSE SubSeq(s, 1, 1)) \o ReplaceSpaces(Tail(s))

\* multi_file::change_type::parse before the files of the directory are read
multi_change_type_parse(dir, base_name) ==
    [name |-> base_name,
     fixed |-> base_name,
     path |-> dir,
     problems |-> IF ~\E n \in 1..Len(change_types) :
                        ReplaceSpaces(ToLower(change_types[n].long)) = base_name
                  THEN <<"invalid change type: " \o base_name>>
                  ELSE <<>>,
     entries |-> <<>>]

\* is_unreleased of multi_file::release: the regex unreleased\s*$, any case
multi_is_unreleased(dir_name) ==
    \E k \in 1..Len(dir_name) :
        AtCI(dir_name, k, "unreleased") /\ SkipWs(dir_name, k + 10) > Len(dir_name)

\* the regex v\d+\.\d+\.\d+(-rc\d+)? matches at index k (is_match: the optional
\* suffix decides nothing)
VersionStringAt(s, k) ==
    LET a == SkipDigits(s, k + 1)
        b == SkipDigits(s, a + 1)
        c == SkipDigits(s, b + 1)
    IN  /\ Ch(s, k) = "v"
        /\ a > k + 1 /\ Ch(s, a) = "."
        /\ b > a + 1 /\ Ch(s, b) = "."
        /\ c > b + 1

\* multi_file::release::parse before the directories of the release are read
multi_release_parse(dir, base_name) ==
    [version |-> base_name,
     path |-> dir,
     problems |-> IF /\ ~multi_is_unreleased(base_name)
                     /\ ~\E k \in 1..Len(base_name) : VersionStringAt(base_name, k)
                  THEN <<"invalid version string: " \o base_name>>
                  ELSE <<>>,
     change_types |-> <<>>]

\* the for_each loops of multi_file::parse_changelog that gather the problems
RECURSIVE AddAllAt(_, _, _, _)
AddAllAt(probs, fp, ln, ps) ==
    IF ps = <<>> THEN probs
    ELSE AddAllAt(add_to_problems_at(probs, fp, ln, Head(ps)), fp, ln, Tail(ps))

RECURSIVE GatherEntries(_, _)
GatherEntries(probs, entries) ==
    IF entries = <<>> THEN probs
    ELSE GatherEntries(AddAllAt(probs, Head(entries).path, <<0>>, Head(entries).problems),
                       Tail(entries))

RECURSIVE GatherChangeTypes(_, _)
GatherChangeTypes(probs, cts) ==
    IF cts = <<>> THEN probs
    ELSE GatherChangeTypes(
             GatherEntries(AddAllAt(probs, Head(cts).path, <<>>, Head(cts).problems),
                           Head(cts).entries),
             Tail(cts))

RECURSIVE GatherReleases(_, _)
GatherReleases(probs, rels) ==
    IF rels = <<>> THEN probs
    ELSE GatherReleases(
             GatherChangeTypes(AddAllAt(probs, Head(rels).path, <<>>, Head(rels).problems),
                               Head(rels).change_types),
             Tail(rels))

\* the order of String: byte by byte; the characters in the order of their codes
AsciiChars ==
    "\t !\"#$%&'()*+,-./0123456789:;<=>?@ABCDEFGHIJKLMNOPQRSTUVWXYZ[\\]^_"
        \o Backtick \o "abcdefghijklmnopqrstuvwxyz{|}~"

CharCode(c) == CHOOSE k \in 1..Len(AsciiChars) : Ch(AsciiChars, k) = c

\* a <= b for two strings
str_le(a, b) ==
    LET m == IF Len(a) < Len(b) THEN Len(a) ELSE Len(b)
        diff == {k \in 1..m : Ch(a, k) # Ch(b, k)}
    IN  IF diff = {} THEN Len(a) <= Len(b)
        ELSE LET k == CHOOSE k \in diff : \A j \in diff : k <= j
             IN  CharCode(Ch(a, k)) < CharCode(Ch(b, k))

RECURSIVE InsertSorted(_, _)
InsertSorted(sorted, x) ==
    IF sorted = <<>> THEN <<x>>
    ELSE IF str_le(Head(sorted), x) THEN <<Head(sorted)>> \o InsertSorted(Tail(sorted), x)
    ELSE <<x>> \o sorted

RECURSIVE SortLoop(_, _)
SortLoop(sorted, rest) ==
    IF rest = <<>> THEN sorted ELSE SortLoop(InsertSorted(sorted, Head(rest)), Tail(rest))

\* a Vec left in the order it was filled
Vec_unsorted(v) == v

\* Vec<String>::sort (stable)
Vec_sort(v) == SortLoop(<<>>, v)

\* the contents of entry files
F_ok == "- (cli) Fix b. ([#2](h/r/pull/2))"
F_defects == "- (cli) add a ([#1](h/r/pull/1))"
F_spaces == "-  (cli) Fix d.  ([#4] (h/r/pull/4))"
F_invalid == "- malformed"
F_link_not_number == "- (cli) Fix c. ([#3](h/r/pull/x))"

EntryFile(name, contents) == [name |-> name, is_file |-> TRUE, contents |-> contents]

Dir(name, items) == [name |-> name, is_dir |-> TRUE, items |-> items]

File(name) == [name |-> name, is_dir |-> FALSE, items |-> {}]

\* the path of the changelog directory
changelog_dir == ".changelog"

\* a changelog with problems at every level
DirFail ==
    { Dir("v1.0.0", { Dir("bug-fixes", { EntryFile("1-a.md", F_defects),
                                         EntryFile("2-b.md", F_invalid) }),
                      Dir("misc", {}) }),
      Dir("bad", { Dir("bug-fixes", { EntryFile("9-x.md", F_ok) }) }),
      File("README.md") }

\* a changelog with whitespace problems and items that are skipped
DirSpaces ==
    { Dir("unreleased", { Dir("bug-fixes", { EntryFile("2-b.md", F_ok),
                                             EntryFile("4-d.md", F_spaces),
                                             [name |-> "drafts", is_file |-> FALSE,
                                              contents |-> ""] }),
                          File("summary.md") }),
      Dir("v1.0.0-rc1", { Dir("Bug Fixes", {}) }) }

\* a changelog with an entry whose link makes check_link panic
DirPanic ==
    { Dir("v1.0.0", { Dir("bug-fixes", { EntryFile("3-c.md", F_link_not_number),
                                         EntryFile("2-b.md", F_ok) }) }) }

DirTrees == {DirFail, DirSpaces, DirPanic}

\* the files entry::parse is called on, with their paths, and what it returns
\* for each of them, computed once
EntryFilesOf(cp, c) == {<<PathJoin(cp, f.name), f.contents>> : f \in {x \in c.items : x.is_file}}

EntryFilesIn(rp, r) ==
    UNION {EntryFilesOf(PathJoin(rp, c.name), c) : c \in {x \in r.items : x.is_dir}}

AllEntryFiles ==
    UNION {UNION {EntryFilesIn(PathJoin(changelog_dir, r.name), r) :
                      r \in {x \in tree : x.is_dir}} : tree \in DirTrees}

MultiEntryTable == [pc \in AllEntryFiles |-> multi_entry_parse(pc[1], pc[2])]

\* the loop of parse_changelog that takes the next item of the changelog
\* directory: release::parse starts on a directory, anything else is skipped
ReleaseItem ==
    /\ multi.status = "reading"
    /\ ~multi.rel_open
    /\ \E x \in multi.dir_items :
           multi' = IF x.is_dir
                    THEN [multi EXCEPT
                             !.dir_items = @ \ {x},
                             !.rel_open = TRUE,
                             !.rel_items = x.items,
                             !.cur_rel = multi_release_parse(PathJoin(changelog_dir, x.name),
                                                             x.name)]
                    ELSE [multi EXCEPT !.dir_items = @ \ {x}]
    /\ UNCHANGED <<cfgvars, scanvars, vervars, cmdvars, callvars, dir_contents>>

\* release::parse takes the next item of the release directory:
\* change_type::parse starts on a directory
ChangeTypeItem ==
    /\ multi.status = "reading"
    /\ multi.rel_open /\ ~multi.ct_open
    /\ \E x \in multi.rel_items :
           multi' = IF x.is_dir
                    THEN [multi EXCEPT
                             !.rel_items = @ \ {x},
                             !.ct_open = TRUE,
                             !.ct_items = x.items,
                             !.cur_ct = multi_change_type_parse(
                                            PathJoin(multi.cur_rel.path, x.name), x.name)]
                    ELSE [multi EXCEPT !.rel_items = @ \ {x}]
    /\ UNCHANGED <<cfgvars, scanvars, vervars, cmdvars, callvars, dir_contents>>

\* change_type::parse takes the next item of its directory: entry::parse on a
\* file gives an entry or a problem of the change type, or panics
EntryItem ==
    /\ multi.status = "reading"
    /\ multi.ct_open
    /\ \E x \in multi.ct_items :
           LET fp == PathJoin(multi.cur_ct.path, x.name)
               e == MultiEntryTable[<<fp, x.contents>>]
           IN  multi' =
                   IF ~x.is_file THEN [multi EXCEPT !.ct_items = @ \ {x}]
                   ELSE IF ~e.ok
                   THEN [multi EXCEPT
                            !.ct_items = @ \ {x},
                            !.cur_ct.problems =
                                Append(@, "invalid entry found in file: " \o fp)]
                   ELSE IF e.panic THEN [multi EXCEPT !.status = "panic"]
                   ELSE [multi EXCEPT
                            !.ct_items = @ \ {x},
                            !.cur_ct.entries =
                                Append(@, [category |-> e.category, fixed |-> e.fixed,
                                           path |-> e.path, pr_number |-> e.pr_number,
                                           problems |-> e.problems])]
    /\ UNCHANGED <<cfgvars, scanvars, vervars, cmdvars, callvars, dir_contents>>

\* change_type::parse returns: the change type joins those of the release
ChangeTypeDone ==
    /\ multi.status = "reading"
    /\ multi.ct_open /\ multi.ct_items = {}
    /\ multi' = [multi EXCEPT
                    !.ct_open = FALSE,
                    !.cur_rel.change_types = Append(@, multi.cur_ct),
                    !.cur_ct = NoChangeType]
    /\ UNCHANGED <<cfgvars, scanvars, vervars, cmdvars, callvars, dir_contents>>

\* release::parse returns: the release joins the releases of the changelog
ReleaseDone ==
    /\ multi.status = "reading"
    /\ multi.rel_open /\ ~multi.ct_open /\ multi.rel_items = {}
    /\ multi' = [multi EXCEPT
                    !.rel_open = FALSE,
                    !.releases = Append(@, multi.cur_rel),
                    !.cur_rel = NoRelease]
    /\ UNCHANGED <<cfgvars, scanvars, vervars, cmdvars, callvars, dir_contents>>

\* every release is parsed: the problems are gathered and sorted, and
\* Ok(MultiFileChangelog) is returned
GatherProblems ==
    /\ multi.status = "reading"
    /\ ~multi.rel_open /\ multi.dir_items = {}
    /\ multi' = [multi EXCEPT
                    !.status = "done",
                    !.problems = Vec_sort(GatherReleases(<<>>, multi.releases))]
    /\ UNCHANGED <<cfgvars, scanvars, vervars, cmdvars, callvars, dir_contents>>

InitMulti ==
    /\ scenario = "errors"
    /\ legacy_version = NoLegacy
    /\ limit = 0
    /\ pass = 1
    /\ written = <<>>
    /\ ScanStart
    /\ NoVersionCall
    /\ NoCommand
    /\ NoCall
    /\ dir_contents \in DirTrees
    /\ multi = [NoMultiParse EXCEPT !.status = "reading", !.dir_items = dir_contents]

NextMulti ==
    \/ ReleaseItem
    \/ ChangeTypeItem
    \/ EntryItem
    \/ ChangeTypeDone
    \/ ReleaseDone
    \/ GatherProblems

\* multi_file::parse_changelog on a changelog directory, its items read in
\* every order
SpecMulti == InitMulti /\ [][NextMulti]_vars

(***************************************************************************)
(* Properties.                                                             *)
(***************************************************************************)
\* the text Changelog::get_fixed_contents returns for the parsed document
FixedContents == get_fixed_contents(comments, releases, legacy_contents)

\* the step consumes a line in branch b and the scan goes on
Consumed(b) == i' = i + 1 /\ branch' = b /\ status' = "scanning"

\* the problems the step records
NewProblems == SubSeq(problems', Len(problems) + 1, Len(problems'))

\* the step keeps the problems recorded before it
KeepsProblems ==
    Len(problems') >= Len(problems) /\ SubSeq(problems', 1, Len(problems)) = problems

\* the messages ps as problems of line n
Tagged(ps, n) == [k \in 1..Len(ps) |-> [line |-> n, msg |-> ps[k]]]

\* the PR numbers of the entries attached to the releases rels
PrsOfEntries(rels) ==
    UNION {UNION {{rels[r].change_types[c].entries[e].pr_number :
                      e \in 1..Len(rels[r].change_types[c].entries)} :
                  c \in 1..Len(rels[r].change_types)} :
           r \in 1..Len(rels)}

DuplicateProblem(pr) == "duplicate PR: #" \o ToString(pr)

\* the duplicate-PR problem and the entry's own problems of the line consumed
\* by the step, when nothing is suppressed
AllEntryProblems ==
    (IF Facts(line').entry.pr_number \in PrsOfEntries(releases)
     THEN <<DuplicateProblem(Facts(line').entry.pr_number)>> ELSE <<>>)
        \o Facts(line').entry.problems

\* C1: fixing is idempotent: when the written output of a fix is parsed again
\* and accepted, serializing it gives the written text again.
FixIsIdempotent ==
    (pass = 2 /\ status = "ok") => FixedContents = written

\* the second fix of a document with an unclosed comment took '# Changelog'
\* into the comment block
UnclosedCommentFixedTwice ==
    /\ pass = 2 /\ status = "ok"
    /\ written = <<L_comment_open, "# Changelog">>
    /\ FixedContents = <<L_comment_open, "# Changelog", "# Changelog">>

\* C2: duplicate-PR detection is whole-document: an entry with no escape
\* pending records exactly one 'duplicate PR' problem when an entry attached
\* earlier, in any release, has its PR number, and none otherwise; the seen
\* PRs are the PRs of the attached entries, and no header changes them.
DuplicatePrWholeDocument ==
    [][/\ Consumed("entry") =>
            /\ KeepsProblems
            /\ escapes = <<>> =>
                  Cardinality({k \in 1..Len(NewProblems) :
                      NewProblems[k] =
                          [line |-> i', msg |-> DuplicateProblem(Facts(line').entry.pr_number)]})
                    = IF Facts(line').entry.pr_number \in PrsOfEntries(releases)
                      THEN 1 ELSE 0
            /\ {seen_prs'[k] : k \in 1..Len(seen_prs')} = PrsOfEntries(releases')
       /\ (i' = i + 1 /\ branch' \in {"release", "change_type"}) =>
            /\ seen_prs' = seen_prs
            /\ PrsOfEntries(releases') = PrsOfEntries(releases)
      ]_vars

\* the entry of the second release repeats the PR of an entry of the first
\* release and got the duplicate-PR problem
DuplicateAcrossReleases ==
    /\ status = "scanning" /\ branch = "entry"
    /\ n_releases = 2 /\ n_change_types = 1
    /\ Len(releases[2].change_types[1].entries) = 1
    /\ releases[2].change_types[1].entries[1].pr_number \in PrsOfEntries(<<releases[1]>>)
    /\ problems # <<>>
    /\ problems[Len(problems) - Len(Facts(line).entry.problems)] =
           [line |-> i, msg |-> DuplicateProblem(Facts(line).entry.pr_number)]

\* C3: an escape is one-shot: a single-line escape comment leaves an escape
\* pending, the next '-' line that is parsed as an entry line, valid or not,
\* leaves none pending, and a '-' line with none pending gets all its
\* problems recorded.
EscapeIsOneShot ==
    [][/\ (Consumed("comment_exit") /\ line' \in {L_escape_full, L_escape_dup}) =>
            escapes' # <<>>
       /\ (Consumed("entry") \/ Consumed("entry_invalid")) => escapes' = <<>>
       /\ (Consumed("entry") /\ escapes = <<>>) =>
            KeepsProblems /\ NewProblems = Tagged(AllEntryProblems, i')
       /\ (Consumed("entry_invalid") /\ escapes = <<>>) =>
            KeepsProblems /\ NewProblems = Tagged(<<"invalid entry: " \o line'>>, i')
      ]_vars

\* after an escape comment the first invalid entry went unreported and the
\* second one was reported
SecondInvalidEntryReported ==
    /\ status = "scanning" /\ branch = "entry_invalid"
    /\ i = 5
    /\ comments = <<L_escape_full>>
    /\ escapes = <<>>
    /\ problems = <<[line |-> 5, msg |-> "invalid entry: " \o L_entry_invalid]>>

\* C4: legacy pass-through is permanent: once a release header is classified
\* as legacy, every later line is appended verbatim to the legacy contents,
\* nothing else of the parse result changes and the mode stays on; before
\* that the legacy contents are empty.
LegacyIsPermanent ==
    [][/\ is_legacy =>
            /\ is_legacy'
            /\ legacy_contents' = IF i' = i + 1 THEN Append(legacy_contents, line')
                                  ELSE legacy_contents
            /\ UNCHANGED <<releases, n_releases, n_change_types, comments, problems,
                           current_release, seen_releases, seen_change_types, seen_prs>>
       /\ ~is_legacy => legacy_contents = <<>>
       /\ (~is_legacy /\ is_legacy') => branch' = "release"
      ]_vars

\* after the legacy release a release header and an indented '-' line were
\* archived as they are, with no release and no problem added
HeaderArchivedAfterLegacyRelease ==
    /\ is_legacy
    /\ n_releases = 1
    /\ releases[1].version = "v0.9.0"
    /\ legacy_contents = <<L_release_new, L_entry_invalid_indented>>
    /\ problems = <<>>

\* the version of a u8 triple and an rc number as one number: the missing rc
\* number counts above every rc number
VersionKey(v) ==
    (((v.major * (U8Max + 1)) + v.minor) * (U8Max + 1) + v.patch) * (U8Max + 2)
        + (IF v.rc_version = NoRc THEN U8Max + 1 ELSE v.rc_version)

\* C5: Release::is_legacy is false for Unreleased and when no legacy version
\* is configured; otherwise, for versions that parse, it is true exactly when
\* the release version is not greater than the legacy version, an equal
\* version included.
IsLegacyExactly ==
    vres.op = "is_legacy" =>
        IF va = "Unreleased" \/ vb = NoLegacy
        THEN vres.ok /\ ~vres.val
        ELSE (VersionParse(va).ok /\ VersionParse(vb[1]).ok) =>
                /\ vres.ok
                /\ vres.val = ~gt(VersionParse(va), VersionParse(vb[1]))
                /\ va = vb[1] => vres.val
                /\ vres.val = (VersionKey(VersionParse(va)) <= VersionKey(VersionParse(vb[1])))

\* a release of the configured legacy version itself is legacy
EqualVersionIsLegacy ==
    /\ vres.op = "is_legacy"
    /\ vb # NoLegacy
    /\ va = vb[1]
    /\ VersionParse(va).ok
    /\ vres.ok /\ vres.val

\* C6: Version::gt is the lexicographic order on (major, minor, patch, rc)
\* with the missing rc number above every rc number: it is irreflexive and
\* asymmetric, and of two distinct versions exactly one is greater.
GtIsLexicographic ==
    vres.op = "gt" =>
        LET a == VersionParse(va)
            b == VersionParse(vb[1])
        IN  /\ vres.val = (VersionKey(a) > VersionKey(b))
            /\ ~gt(a, a) /\ ~gt(b, b)
            /\ ~(gt(a, b) /\ gt(b, a))
            /\ a # b => (gt(a, b) \/ gt(b, a))

\* a release is greater than its own release candidate
ReleaseAboveCandidate ==
    /\ vres.op = "gt"
    /\ vres.val
    /\ VersionParse(va).rc_version = NoRc
    /\ VersionParse(vb[1]).rc_version # NoRc
    /\ VersionParse(va).major = VersionParse(vb[1]).major
    /\ VersionParse(va).minor = VersionParse(vb[1]).minor
    /\ VersionParse(va).patch = VersionParse(vb[1]).patch

\* C7: the problems are in non-decreasing line order, and each is tagged with
\* the 1-based number of the line that was processed when it was recorded.
ProblemsInLineOrder ==
    [][/\ KeepsProblems
       /\ \A k \in 1..Len(NewProblems) : i' = i + 1 /\ NewProblems[k].line = i'
       /\ \A k \in 1..(Len(problems') - 1) : problems'[k].line <= problems'[k + 1].line
      ]_vars

\* a returned problem list with two problems of one line and a problem of a
\* later line
ProblemsOfTwoLines ==
    /\ status = "ok"
    /\ Len(problems) >= 3
    /\ problems[1].line = problems[2].line
    /\ problems[2].line < problems[Len(problems)].line

\* C8: a '-' line that reaches the entry parser and fails the entry grammar
\* never ends the parse: it records the one problem 'invalid entry: <line>',
\* or nothing when a full-line escape is pending, changes nothing else of the
\* parse result, and the scan goes on.
InvalidEntryIsAProblem ==
    [][(/\ i' = i + 1
        /\ ~is_legacy
        /\ ~(is_comment \/ Facts(line').enters_comment)
        /\ Facts(line').is_dash
        /\ ~Facts(line').entry.ok) =>
            /\ status' = "scanning"
            /\ KeepsProblems
            /\ NewProblems = IF \E k \in 1..Len(escapes) : escapes[k] = "FullLine"
                             THEN <<>>
                             ELSE <<[line |-> i', msg |-> "invalid entry: " \o line']>>
            /\ UNCHANGED <<releases, n_releases, n_change_types, comments,
                           legacy_contents, current_release, seen_releases,
                           seen_change_types, seen_prs, is_comment, is_legacy>>
      ]_vars

\* an entry was parsed and attached after an invalid entry line was reported
EntryParsedAfterInvalidEntry ==
    /\ status = "scanning" /\ branch = "entry"
    /\ i = 4
    /\ problems # <<>>
    /\ problems[1] = [line |-> 3, msg |-> "invalid entry: " \o L_entry_invalid]
    /\ Len(releases[1].change_types[1].entries) = 1

\* C9: a line that is not turned into structure (a '-' line that fails the
\* entry grammar, or a line that is no comment, header or '-' line) appears
\* unchanged in the text get_fixed_contents returns.
LinesPreserved ==
    (status = "ok" /\ branch \in {"other", "entry_invalid"}) =>
        \E k \in 1..Len(FixedContents) : FixedContents[k] = line

\* a document that ends with a text line was accepted and the text line is not
\* in the fixed contents
TextLineLost ==
    /\ status = "ok" /\ branch = "other"
    /\ line = L_text
    /\ \A k \in 1..Len(FixedContents) : FixedContents[k] # L_text

\* C10: the comment of either directive leaves exactly its own kind of escape
\* pending; with a full-line escape pending an entry records no problem at
\* all, with only a duplicate-PR escape pending it records all of its own
\* problems and no duplicate-PR problem.
EscapeKindsSuppress ==
    [][/\ Consumed("comment_exit") =>
            /\ line' = L_escape_dup => escapes' = Append(escapes, "DuplicatePR")
            /\ line' = L_escape_full => escapes' = Append(escapes, "FullLine")
            /\ Len(escapes') <= Len(escapes) + 1
       /\ (Consumed("entry") /\ \E k \in 1..Len(escapes) : escapes[k] = "FullLine") =>
            problems' = problems
       /\ (/\ Consumed("entry")
           /\ \E k \in 1..Len(escapes) : escapes[k] = "DuplicatePR"
           /\ \A k \in 1..Len(escapes) : escapes[k] # "FullLine") =>
            KeepsProblems /\ NewProblems = Tagged(Facts(line').entry.problems, i')
      ]_vars

\* the repeated entry after a duplicate-PR escape recorded its own problems
\* and no duplicate-PR problem
DuplicateSuppressedOnly ==
    /\ status = "scanning" /\ branch = "entry"
    /\ i = 5
    /\ line = L_entry_1
    /\ comments = <<L_escape_dup>>
    /\ Facts(L_entry_1).entry.problems # <<>>
    /\ problems = Tagged(Facts(L_entry_1).entry.problems, 3)
                      \o Tagged(Facts(L_entry_1).entry.problems, 5)

\* C11: in a changelog parse_changelog returned, also after add_entry calls,
\* a release that reports is_unreleased is the first release (so there is at
\* most one).
UnreleasedOnlyFirst ==
    status = "ok" =>
        \A k \in 1..Len(releases) : is_unreleased(releases[k]) => k = 1

\* a document with two Unreleased headers was accepted and an entry was added
TwoUnreleasedAfterAdd ==
    /\ status = "ok" /\ n_adds > 0
    /\ \E j \in 1..Len(releases) : \E k \in (j + 1)..Len(releases) :
           is_unreleased(releases[j]) /\ is_unreleased(releases[k])

\* the change types newcts are the change types oldcts with one entry of the
\* PR number pr added for the change type name: in front of the entries of a
\* change type of that name, or alone in a new change type at the end
ChangeTypesAfterAdd(oldcts, newcts, name, pr) ==
    IF \E k \in 1..Len(oldcts) : oldcts[k].name = name
    THEN /\ Len(newcts) = Len(oldcts)
         /\ \E j \in 1..Len(oldcts) :
                /\ oldcts[j].name = name
                /\ newcts[j].entries # <<>>
                /\ Head(newcts[j].entries).pr_number = pr
                /\ Tail(newcts[j].entries) = oldcts[j].entries
                /\ [newcts[j] EXCEPT !.entries = oldcts[j].entries] = oldcts[j]
                /\ \A k \in 1..Len(oldcts) : k # j => newcts[k] = oldcts[k]
    ELSE /\ Len(newcts) = Len(oldcts) + 1
         /\ SubSeq(newcts, 1, Len(oldcts)) = oldcts
         /\ newcts[Len(newcts)].name = name
         /\ Len(newcts[Len(newcts)].entries) = 1
         /\ newcts[Len(newcts)].entries[1].pr_number = pr

\* the releases news are the releases olds with one entry added to the first
\* Unreleased release olds[u] and nothing else changed
ReleasesAfterAdd(olds, news, u, name, pr) ==
    /\ Len(news) = Len(olds)
    /\ \A k \in 1..Len(olds) : k # u => news[k] = olds[k]
    /\ [news[u] EXCEPT !.change_types = olds[u].change_types] = olds[u]
    /\ ChangeTypesAfterAdd(olds[u].change_types, news[u].change_types, name, pr)

\* C12: an add_entry call that returns only adds: the releases, change types
\* and entries that were there stay as they are and in their order; without an
\* Unreleased release a new one is put first; the new entry is the first entry
\* of the Unreleased change type of the requested name, or the only entry of a
\* new change type after the change types Unreleased had.
AddEntryOnlyAdds ==
    [][(branch' = "add_entry" /\ status' = "ok") =>
          /\ IF \E k \in 1..Len(releases) : is_unreleased(releases[k])
             THEN ReleasesAfterAdd(releases, releases',
                      CHOOSE k \in 1..Len(releases) :
                          /\ is_unreleased(releases[k])
                          /\ \A j \in 1..(k - 1) : ~is_unreleased(releases[j]),
                      add_args'.change_type, add_args'.pr)
             ELSE /\ Len(releases') = Len(releases) + 1
                  /\ Tail(releases') = releases
                  /\ releases'[1].version = "Unreleased"
                  /\ releases'[1].fixed = "## Unreleased"
                  /\ ChangeTypesAfterAdd(<<>>, releases'[1].change_types,
                                         add_args'.change_type, add_args'.pr)
          /\ UNCHANGED <<comments, legacy_contents, problems>>]_vars

\* an entry was added in front of an entry the document had
EntryAddedInFront ==
    /\ branch = "add_entry" /\ status = "ok"
    /\ \E r \in 1..Len(releases) : \E c \in 1..Len(releases[r].change_types) :
           LET es == releases[r].change_types[c].entries
           IN  /\ Len(es) >= 2
               /\ es[1].pr_number = add_args.pr
               /\ es[2].pr_number # add_args.pr

\* the parts make a well-formed entry line: no leading whitespace, no backslash, a
\* configured lower-case category, the link of the PR number, a description
\* that starts with a capital letter, ends with a period and has no misspelling
WellFormedParts(e) ==
    /\ e.ws0 = "" /\ e.bs = ""
    /\ e.cat \in categories /\ ToLower(e.cat) = e.cat
    /\ e.link \in {target_repo \o "/pull/" \o e.pr, target_repo \o "/pull/" \o StripZeros(e.pr)}
    /\ Ch(e.desc, 1) \in UpperLetters
    /\ Ch(e.desc, Len(e.desc)) = "."
    /\ \A k \in 1..Len(e.desc) : ~AtCI(e.desc, k, "api")

\* C13: entry::parse of a well-formed entry line succeeds with no problems and
\* a fixed text equal to the line.
WellFormedEntryRoundTrip ==
    (call_args.op = "entry_parse" /\ call_result.done /\ WellFormedParts(call_args.parts)) =>
        /\ call_result.ok
        /\ call_result.problems = <<>>
        /\ call_result.fixed = call_args.text

\* a well-formed line whose PR number is written with a leading zero was parsed
\* without a problem and its fixed text is another line
LeadingZeroRewritten ==
    /\ call_args.op = "entry_parse" /\ call_result.done
    /\ WellFormedParts(call_args.parts)
    /\ call_args.parts.pr = "01"
    /\ call_result.ok /\ call_result.problems = <<>>
    /\ call_result.fixed # call_args.text

\* C14: check_link returns for every link and PR number: the fixed link is
\* target_repo/pull/pr_number, with one problem when the link does not start
\* with target_repo and one when its last path segment is not the PR number.
CheckLinkNeverRejects ==
    (call_args.op = "check_link" /\ call_result.done) =>
        /\ call_result.ok
        /\ call_result.fixed = target_repo \o "/pull/" \o ToString(call_args.pr)
        /\ Len(call_result.problems) =
               (IF StartsWith(call_args.text, target_repo) THEN 0 ELSE 1)
               + (IF /\ AllDigits(LastSegment(call_args.text))
                     /\ ParseNum(LastSegment(call_args.text)) = call_args.pr
                  THEN 0 ELSE 1)

\* check_link was called with an empty link and did not return
CheckLinkPanicked ==
    /\ call_args.op = "check_link" /\ call_result.done
    /\ call_args.text = ""
    /\ call_result.panic

\* C15: both check_description functions capitalize a description that starts
\* with a lower-case letter and append the missing period, with one problem
\* for each of the two corrections, in this order, that quotes the
\* description as it was given; nothing else is changed or reported.
DescriptionAutoFix ==
    (call_args.op \in {"check_description", "entry_check_description"} /\ call_result.done) =>
        LET d == call_args.text
            lower == Ch(d, 1) \in LowerLetters
            nodot == Ch(d, Len(d)) # "."
        IN  /\ call_result.fixed =
                   (IF lower THEN ToUpperChar(Ch(d, 1)) \o From(d, 2) ELSE d)
                       \o (IF nodot THEN "." ELSE "")
            /\ call_result.problems =
                   (IF lower
                    THEN <<"PR description should start with capital letter: '" \o d \o "'">>
                    ELSE <<>>)
                   \o (IF nodot
                       THEN <<"PR description should end with a dot: '" \o d \o "'">>
                       ELSE <<>>)

\* check_description of src/entry.rs gave back a description that has the
\* period and has lost the capital letter
CapitalLostByDot ==
    /\ call_args.op = "entry_check_description" /\ call_result.done
    /\ call_args.text = "add Python implementation"
    /\ call_result.fixed = "add Python implementation."
    /\ Len(call_result.problems) = 2

\* index k of the text lies inside a back-tick code span: an odd number of
\* back-ticks before it and a back-tick after it
InsideCodeSpan(text, k) ==
    /\ Cardinality({j \in 1..(k - 1) : Ch(text, j) = Backtick}) % 2 = 1
    /\ \E j \in k..Len(text) : Ch(text, j) = Backtick

\* the pattern occurs at index k of the text as a whole word
WholeWordAt(pattern, text, k) ==
    /\ AtCI(text, k, pattern)
    /\ (k = 1 \/ Ch(text, k - 1) \in {" ", "\t"})
    /\ (k + Len(pattern) > Len(text) \/ Ch(text, k + Len(pattern)) \in {" ", "\t", "."})

\* C16: get_spelling_match finds a match exactly when the pattern occurs in
\* the text as a whole word outside every code span; occurrences inside a word
\* or a code span neither count nor hide a whole word elsewhere.
SpellingMatchExact ==
    (call_args.op = "get_spelling_match" /\ call_result.done) =>
        (call_result.ok <=>
            \E k \in 1..Len(call_args.text) :
                /\ WholeWordAt(call_args.pattern, call_args.text, k)
                /\ ~InsideCodeSpan(call_args.text, k))

\* a text with the word in a code span and as a whole word outside of it got
\* no match
CodeSpanHidesWord ==
    /\ call_args.op = "get_spelling_match" /\ call_result.done
    /\ call_args.text = "Fix " \o Backtick \o "api" \o Backtick \o " and aPi."
    /\ ~call_result.ok

\* C17: once lint has run on a loaded changelog: in fix mode the file has been
\* rewritten and the result is Ok, whatever the problems; without fix mode the
\* file is not written and the result is ProblemsInChangelog exactly when the
\* problem list is not empty.
LintFixAlwaysWrites ==
    (lint_result \notin {"none", "LoadError"}) =>
        IF fix
        THEN file_rewritten /\ lint_result = "Ok"
        ELSE /\ ~file_rewritten
             /\ written = <<>>
             /\ lint_result = "ProblemsInChangelog" <=> problems # <<>>

\* lint --fix has returned Ok on a changelog with a release and no problem,
\* and has not written the file
FixWithoutProblemsNotWritten ==
    /\ fix
    /\ lint_result = "Ok"
    /\ problems = <<>>
    /\ releases # <<>>
    /\ ~file_rewritten
    /\ written = <<>>

\* C19: an escape directive does not reach across a header: a step that
\* consumes a release header or a change type header leaves no pending
\* escape, and an entry with defects that comes right after a header has its
\* problems recorded.
EscapeNotAcrossHeader ==
    [][/\ (Consumed("release") \/ Consumed("change_type")) => escapes' = <<>>
       /\ (branch \in {"release", "change_type"} /\ Consumed("entry") /\ line' = L_entry_1) =>
              NewProblems # <<>>]_vars

\* a document of five lines with one escape comment, one release, two change
\* type headers and last an entry with defects in the second change type: the
\* escape comment stands before the second header, and the only problem
\* recorded is the duplicate change type
EntrySuppressedAcrossHeader ==
    /\ scenario = "escapes"
    /\ status = "scanning"
    /\ i = 5
    /\ branch = "entry"
    /\ line = L_entry_1
    /\ comments = <<L_escape_full>>
    /\ n_releases = 1
    /\ n_change_types = 2
    /\ releases[1].change_types[1].entries = <<>>
    /\ Len(releases[1].change_types[2].entries) = 1
    /\ Len(problems) = 1

\* C20: a comment line is added to the leading comment block only while no
\* release has been parsed, and is skipped afterwards; the line that closes a
\* comment ends the comment.
CommentsOnlyBeforeFirstRelease ==
    [][/\ (Consumed("comment") \/ Consumed("comment_exit")) =>
              comments' = IF n_releases = 0 THEN Append(comments, line') ELSE comments
       /\ Consumed("comment_exit") => ~is_comment']_vars

\* the document of a release header followed by a two-line comment: the comment
\* is in the comment block and the fixed contents put it before the title
CommentAfterReleaseKept ==
    /\ scenario = "comments"
    /\ status = "scanning"
    /\ i = 3
    /\ branch = "comment_exit"
    /\ n_releases = 1
    /\ comments = <<L_comment_open, L_comment_close>>
    /\ SubSeq(FixedContents, 1, 3) = <<L_comment_open, L_comment_close, "# Changelog">>

\* the elements of a sequence
Elements(seq) == {seq[k] : k \in 1..Len(seq)}

\* the problems of an entry file, of a change type directory and of a release
\* directory with everything below it, each with the path it is reported at
ExpectedOfFile(cp, f) ==
    LET fp == PathJoin(cp, f.name)
        e == MultiEntryTable[<<fp, f.contents>>]
    IN  IF e.ok THEN {fp \o ":1: " \o p : p \in Elements(e.problems)}
        ELSE {cp \o ": invalid entry found in file: " \o fp}

ExpectedOfChangeType(cp, c) ==
    {cp \o ": " \o p : p \in Elements(multi_change_type_parse(cp, c.name).problems)}
        \cup UNION {ExpectedOfFile(cp, f) : f \in {x \in c.items : x.is_file}}

ExpectedOfRelease(rp, r) ==
    {rp \o ": " \o p : p \in Elements(multi_release_parse(rp, r.name).problems)}
        \cup UNION {ExpectedOfChangeType(PathJoin(rp, c.name), c) :
                        c \in {x \in r.items : x.is_dir}}

ExpectedProblems(tree) ==
    UNION {ExpectedOfRelease(PathJoin(changelog_dir, r.name), r) :
               r \in {x \in tree : x.is_dir}}

DuplicateChangeTypeProblems ==
    SelectSeq(NewProblems, LAMBDA p : StartsWith(p.msg, "duplicate change type"))

\* C21: duplicate change types are detected within one release: a change type
\* header is appended to the last release in every case, with exactly one
\* 'duplicate change type' problem when that release already has a change
\* type of the same name and none otherwise, whatever earlier releases hold;
\* a release header empties the set of change types seen.
ChangeTypeDuplicatePerRelease ==
    [][/\ Consumed("change_type") =>
              LET cts == releases[n_releases].change_types
                  cts2 == releases'[n_releases].change_types
              IN  /\ n_releases' = n_releases
                  /\ Len(cts2) = Len(cts) + 1
                  /\ SubSeq(cts2, 1, Len(cts)) = cts
                  /\ KeepsProblems
                  /\ Len(DuplicateChangeTypeProblems) =
                         IF \E k \in 1..Len(cts) : cts[k].name = cts2[Len(cts2)].name
                         THEN 1 ELSE 0
       /\ Consumed("release") => seen_change_types' = <<>>]_vars

\* a document with the same change type twice in the first release and once in
\* the second: both instances are kept in the first release and the one
\* problem recorded is the duplicate in the first release
SameChangeTypeInTwoReleases ==
    /\ status = "scanning"
    /\ i = 5
    /\ branch = "change_type"
    /\ n_releases = 2
    /\ Len(releases[1].change_types) = 2
    /\ releases[1].change_types[1].name = releases[1].change_types[2].name
    /\ Len(releases[2].change_types) = 1
    /\ releases[2].change_types[1].name = releases[1].change_types[1].name
    /\ Len(problems) = 1
    /\ problems[1].line = 3
    /\ StartsWith(problems[1].msg, "duplicate change type")

\* the problem list has the malformed-header problem of a change type line
HasMalformedChangeType(ps) ==
    \E k \in 1..Len(ps) : StartsWith(ps[k], "Change type line is malformed")

\* C22: change_type::parse records the malformed-header problem exactly when
\* the line differs from the canonical header '### {fixed name}', whatever
\* the name checks report.
MalformedIffNotCanonical ==
    (call_args.op = "change_type_parse" /\ call_result.done /\ call_result.ok) =>
        (HasMalformedChangeType(call_result.problems) <=>
             call_args.text # call_result.fixed)

\* the header '### BugFixes' was parsed: the name is corrected and the only
\* problem is the spelling of the name
SpellingCorrectedNotMalformed ==
    /\ call_args.op = "change_type_parse" /\ call_result.done /\ call_result.ok
    /\ call_args.text = "### BugFixes"
    /\ call_result.fixed = "### Bug Fixes"
    /\ call_result.problems = <<"'Bug Fixes' should be used instead of 'BugFixes'">>

\* the entry line of the call has a backslash before the '#' of the PR link,
\* and the parse did not panic
BackslashLineParsed ==
    /\ call_args.op \in {"entry_parse", "entry_rs_parse"}
    /\ call_result.done /\ ~call_result.panic
    /\ call_args.parts.bs # ""

\* C23: each entry parser accepts a line with a backslash before the '#' of
\* the PR link, reports 'There should be no backslash in front of the # in
\* the PR link', returns a fixed text without the backslash, and reports
\* nothing else when nothing else is wrong with the line.
BackslashReported ==
    BackslashLineParsed =>
        /\ call_result.ok
        /\ \E k \in 1..Len(call_result.problems) : call_result.problems[k] = backslash_problem
        /\ ~Contains(call_result.fixed, "\\")
        /\ WellFormedParts([call_args.parts EXCEPT !.bs = ""]) =>
               call_result.problems = <<backslash_problem>>

\* the single-file parser took '- (cli) [\#1](h/r/pull/1) Fix b.', dropped
\* the backslash in the fixed text and reported no problem
BackslashUnreported ==
    /\ call_args.op = "entry_parse" /\ call_result.done /\ call_result.ok
    /\ call_args.text = "- (cli) [\\#1](h/r/pull/1) Fix b."
    /\ call_result.fixed = "- (cli) [#1](h/r/pull/1) Fix b."
    /\ call_result.problems = <<>>

\* position k of the text lies in a whole-word occurrence of the pattern
InIsolatedWord(pattern, text, k) ==
    \E j \in 1..k : k < j + Len(pattern) /\ IsolatedAt(pattern, text, j)

\* the text with every whole-word occurrence of the pattern replaced by a
\* spelling of the same length, every other character kept
AllIsolatedReplaced(pattern, correct, text, fixed) ==
    /\ Len(fixed) = Len(text)
    /\ \A k \in 1..Len(text) :
           IF InIsolatedWord(pattern, text, k)
           THEN \E j \in 1..k : /\ IsolatedAt(pattern, text, j) /\ k < j + Len(pattern)
                                /\ Ch(fixed, k) = Ch(correct, k - j + 1)
           ELSE Ch(fixed, k) = Ch(text, k)

\* check_spelling was called on a text in which get_spelling_match finds a
\* misspelled whole word
MisspellingFound ==
    /\ call_args.op = "check_spelling" /\ call_result.done
    /\ LET r == get_spelling_match(call_args.pattern, call_args.text)
       IN  r.ok /\ r.m # expected_spellings[1].correct

\* C24: when check_spelling finds a misspelled whole word, the fixed text has
\* every whole-word occurrence of the pattern replaced, occurrences inside
\* another word are left alone, and one problem is recorded for the pattern.
EveryWholeWordReplaced ==
    MisspellingFound =>
        /\ AllIsolatedReplaced(call_args.pattern, expected_spellings[1].correct,
                               call_args.text, call_result.fixed)
        /\ Len(call_result.problems) = 1

\* 'Fix api and api.' comes back with the first occurrence replaced only
OnlyFirstOccurrenceReplaced ==
    /\ call_args.op = "check_spelling" /\ call_result.done
    /\ call_args.text = "Fix api and api."
    /\ call_result.fixed = "Fix API and api."
    /\ call_result.problems = <<"'API' should be used instead of 'api'">>

\* the entries of the changelog with the PR number of the last add_entry call
AddedEntries ==
    {releases[r].change_types[c].entries[k] :
        <<r, c, k>> \in {t \in (1..Len(releases)) \X (1..4) \X (1..4) :
                            /\ t[2] <= Len(releases[t[1]].change_types)
                            /\ t[3] <= Len(releases[t[1]].change_types[t[2]].entries)
                            /\ releases[t[1]].change_types[t[2]].entries[t[3]].pr_number
                                   = add_args.pr}}

\* the problems a fix resolves: all but a category that is not configured
AutoFixable(ps) ==
    SelectSeq(ps, LAMBDA p : ~StartsWith(p, "invalid change category"))

\* C25: the entry stored by add_entry is a fixed point of the entry parser:
\* its fixed line parses to the same fixed text with no auto-fixable problem.
AddedEntryIsFixedPoint ==
    (branch = "add_entry" /\ status = "ok") =>
        \A e \in AddedEntries :
            LET p == EntryParse(e.fixed)
            IN  /\ p.ok /\ ~p.panic
                /\ p.fixed = e.fixed
                /\ AutoFixable(p.problems) = <<>>

\* the description 'fix xapi and api' was added: the stored line keeps the
\* whole word 'api', and a parse of it reports the spelling again
SpellingProblemSurvivesAdd ==
    /\ branch = "add_entry" /\ status = "ok"
    /\ add_args.desc = "fix xapi and api"
    /\ \E e \in AddedEntries :
           /\ e.fixed = "- (cli) [#3](h/r/pull/3) Fix xAPI and api."
           /\ EntryParse(e.fixed).fixed = e.fixed
           /\ EntryParse(e.fixed).problems = <<"'API' should be used instead of 'api'">>

\* the counters are the lengths of the lists they index
CursorMatchesLists ==
    /\ n_releases = Len(releases)
    /\ n_change_types =
           IF n_releases = 0 THEN 0 ELSE Len(releases[n_releases].change_types)

\* the parse panicked at the lookup of the last release or the last change
\* type, not inside a checker of the entry
CursorPanic ==
    /\ status = "panic"
    /\ \/ branch = "change_type"
       \/ branch = "entry" /\ ~Facts(line).entry.panic

\* C26: the cursor is always valid: n_releases is the number of releases,
\* n_change_types the number of change types of the last release, and a
\* change type header before any release header, or an entry before any
\* change type header of the current release, does not make the parse panic.
CursorAlwaysValid ==
    /\ CursorMatchesLists
    /\ ~CursorPanic

\* the first line of the document is a change type header: the parse panics
\* at the lookup of the last release
ChangeTypeBeforeRelease ==
    /\ status = "panic" /\ branch = "change_type"
    /\ i = 1 /\ line = L_change_type
    /\ n_releases = 0 /\ releases = <<>>

\* the line is a release header or a change type header by its first
\* characters and fails the grammar of its parser
FailsHeaderGrammar(l) ==
    LET t == Trim(l)
    IN  \/ StartsWith(t, "## ") /\ ~Facts(l).release.ok
        \/ ~StartsWith(t, "## ") /\ StartsWith(t, "### ") /\ ~Facts(l).change_type.ok

\* the lines that fail the grammar of their header, outside a comment
FailingHeaders ==
    {l \in KnownLines : FailsHeaderGrammar(l) /\ ~Contains(Trim(l), "<!--")}

\* C27: a header line that fails its grammar, outside a comment and before
\* legacy mode, makes parse_changelog return an error and no Changelog,
\* whatever escape is pending and whatever came before.
HeaderErrorStopsParse ==
    [][/\ (/\ status = "scanning" /\ i' = i + 1
           /\ ~is_legacy /\ ~is_comment
           /\ line' \in FailingHeaders) => status' = "err"
       /\ status = "err" => status' = "err"]_vars

\* '### !' after a release header and a pending full-line escape: the parse
\* returned the error
HeaderErrorUnderEscape ==
    /\ status = "err" /\ branch = "change_type"
    /\ line = L_change_type_bad
    /\ i = 3 /\ n_releases = 1
    /\ escapes = <<"FullLine">>

\* C28: the legacy check cannot fail: every version label that the dated
\* release header grammar accepts is accepted by version::parse, so the parse
\* never panics with 'failed to check legacy'.
LegacyCheckNeverFails ==
    /\ (i > 0 /\ branch = "release" /\ Facts(line).release.ok
            /\ Facts(line).release.version # "Unreleased") =>
           VersionParse(Facts(line).release.version).ok
    /\ ~(status = "panic" /\ branch = "release")

\* a release header with the version v256.0.0 was taken with a legacy version
\* configured: the header parsed, version::parse failed and the parse panicked
LegacyCheckPanicked ==
    /\ status = "panic" /\ branch = "release"
    /\ line = L_release_overflow
    /\ Facts(line).release.ok /\ Facts(line).release.version = "v256.0.0"
    /\ ~VersionParse("v256.0.0").ok
    /\ legacy_version = <<"v1.0.0">>

\* the '-' lines outside a comment the entry parser accepts, and those it rejects
AcceptedEntryLines ==
    {l \in KnownLines : /\ Facts(l).is_dash /\ ~Facts(l).enters_comment
                        /\ Facts(l).entry.ok /\ ~Facts(l).entry.panic}

RejectedEntryLines ==
    {l \in KnownLines : /\ Facts(l).is_dash /\ ~Facts(l).enters_comment
                        /\ ~Facts(l).entry.ok}

\* the PR number of an accepted entry line
PrOfEntryLine == [l \in AcceptedEntryLines |-> Facts(l).entry.pr_number]

\* C29: an escaped entry still counts for later duplicate detection: after a
\* successfully parsed entry line is processed its PR number is among the seen
\* PR numbers, also under a pending full-line or duplicate-PR escape; a '-'
\* line that fails the entry grammar never adds a PR number.
EscapedEntryStillSeen ==
    [][(/\ status = "scanning" /\ status' = "scanning" /\ i' = i + 1
        /\ ~is_legacy /\ ~is_comment) =>
           /\ line' \in AcceptedEntryLines =>
                  /\ SeqContains(seen_prs', PrOfEntryLine[line'])
                  /\ Len(seen_prs') >= Len(seen_prs)
                  /\ SubSeq(seen_prs', 1, Len(seen_prs)) = seen_prs
           /\ line' \in RejectedEntryLines => seen_prs' = seen_prs]_vars

\* an entry of PR 1 under a full-line escape, then the same entry again: the
\* first records nothing, the second is reported as a duplicate
DuplicateOfEscapedEntry ==
    /\ status = "scanning" /\ branch = "entry"
    /\ i = 5 /\ line = L_entry_1
    /\ seen_prs = <<1>>
    /\ problems # <<>>
    /\ problems[1] = [line |-> 5, msg |-> "duplicate PR: #1"]
    /\ Len(releases[1].change_types[1].entries) = 2

\* C30: a release header that parses without problems is already canonical:
\* its fixed text is the line as written, for the dated and the Unreleased form.
ProblemFreeReleaseIsCanonical ==
    (call_args.op = "release_parse" /\ call_result.done /\ call_result.ok
         /\ call_result.problems = <<>>) =>
        call_result.fixed = call_args.text

\* a dated header with two spaces after '##' parsed without problems and
\* with a fixed text that has one space
SpacedReleaseProblemFree ==
    /\ call_args.op = "release_parse" /\ call_result.done /\ call_result.ok
    /\ call_args.text = "##  [v1.0.1](h/r/releases/tag/v1.0.1) - 2024-04-27"
    /\ call_result.fixed = L_release_new
    /\ call_result.problems = <<>>

====
